---- MODULE Spec2Model ----
(***************************************************************************)
(* Cultivated TV: the filter-to-query translation, the debounce/commit     *)
(* layer and the result reconciler, modelled from                          *)
(*   src/App.tsx            (component App)                                 *)
(*   src/README.md          (services/tmdbService: discoverShows,           *)
(*                           searchShows; lines 83-204)                     *)
(*                                                                         *)
(* JavaScript numbers.  Every number the program holds here is either an   *)
(* integer or was parsed from a decimal literal with at most three         *)
(* fractional digits (a text input, a JSON response).  Such a number is    *)
(* written in the model as the integer "value * 1000" (its "milli" form);  *)
(* Dbl(x) is the IEEE-754 binary64 value the program really holds for it,  *)
(* and the arithmetic of discoverShows is carried out on those doubles.    *)
(***************************************************************************)
EXTENDS Integers, Sequences, FiniteSets, TLC

(***************************************************************************)
(* IEEE-754 binary64, round-to-nearest-even.  A finite non-zero double is  *)
(*   [neg, exp, man]  =  (-1)^neg * (M / 2^52) * 2^exp                      *)
(* where M, 2^52 <= M < 2^53, is the 53-bit significand, held in man as    *)
(* five base-8192 digits, least significant first (man[5] = 1 is the       *)
(* leading bit).  Zero has man = <<>>.  Subnormals and infinities do not   *)
(* occur for the magnitudes of the model; NaN is handled where the code    *)
(* tests for it.  Every intermediate value fits a 32-bit integer.          *)
(***************************************************************************)
SignificandBits == 53

DblZero == [neg |-> FALSE, exp |-> 0, man |-> <<>>]

RECURSIVE Pow2(_)
Pow2(k) == IF k = 0 THEN 1 ELSE 2 * Pow2(k - 1)

RECURSIVE Normalise(_, _, _)
\* scale n/d into [1, 2): the result has N/D in [1,2) and n/d = (N/D) * 2^k
Normalise(N, D, k) ==
    IF N >= 2 * D THEN Normalise(N, 2 * D, k + 1)
    ELSE IF N < D THEN Normalise(2 * N, D, k - 1)
    ELSE [N |-> N, D |-> D, k |-> k]

RECURSIVE ExpandDigits(_, _, _)
\* the next cnt base-8192 digits of r/D (r < D < 2^18), least significant
\* first, and the remainder left after them
ExpandDigits(r, D, cnt) ==
    IF cnt = 0 THEN [digits |-> <<>>, rem |-> r]
    ELSE LET q    == (r * 8192) \div D
             rest == ExpandDigits((r * 8192) % D, D, cnt - 1)
         IN  [digits |-> rest.digits \o <<q>>, rem |-> rest.rem]

\* one unit in the last place more, renormalising when the carry leaves the
\* significand (M = 2^53 becomes 2^52 with the exponent one higher)
RoundUp(sgn, e, sig) ==
    LET c1 == IF sig[1] = 8191 THEN 1 ELSE 0
        c2 == IF c1 = 1 /\ sig[2] = 8191 THEN 1 ELSE 0
        c3 == IF c2 = 1 /\ sig[3] = 8191 THEN 1 ELSE 0
        c4 == IF c3 = 1 /\ sig[4] = 8191 THEN 1 ELSE 0
        m  == << (sig[1] + 1) % 8192, (sig[2] + c1) % 8192,
                 (sig[3] + c2) % 8192, (sig[4] + c3) % 8192, sig[5] + c4 >>
    IN  IF m[5] = 2
        THEN [neg |-> sgn, exp |-> e + 1, man |-> <<0, 0, 0, 0, 1>>]
        ELSE [neg |-> sgn, exp |-> e, man |-> m]

\* the double nearest to the rational n/d (d > 0, |n| < 2^18)
DblOfRatio(n, d) ==
    IF n = 0 THEN DblZero
    ELSE LET sgn  == n < 0
             a    == IF sgn THEN 0 - n ELSE n
             s    == Normalise(a, d, 0)
             x    == ExpandDigits(s.N - s.D, s.D, 4)
             sig  == x.digits \o <<1>>
             up   == \/ 2 * x.rem > s.D
                     \/ 2 * x.rem = s.D /\ sig[1] % 2 = 1
         IN  IF up THEN RoundUp(sgn, s.k, sig)
             ELSE [neg |-> sgn, exp |-> s.k, man |-> sig]

\* the double of a number written in milli form
Dbl(x) == DblOfRatio(x, 1000)

\* digit k (2..10) of the unnormalised product: the sum of a[i] * b[j], i + j = k
Column(a, b, k) ==
    LET term(i) == IF k - i \in 1 .. 5 THEN a[i] * b[k - i] ELSE 0
    IN  term(1) + term(2) + term(3) + term(4) + term(5)

RECURSIVE Carry(_, _, _, _)
\* the base-8192 digits of the product, least significant first
Carry(a, b, k, c) ==
    IF k > 10 THEN <<>>
    ELSE LET t == Column(a, b, k) + c
         IN  <<t % 8192>> \o Carry(a, b, k + 1, t \div 8192)

\* a * b, correctly rounded.  The product of the significands has 105 or 106
\* bits, digits P[1..9]; its top 53 bits are kept, the bit below them is the
\* guard bit, the rest is sticky.
DblMul(a, b) ==
    IF a.man = <<>> \/ b.man = <<>> THEN DblZero
    ELSE LET P      == Carry(a.man, b.man, 2, 0)
             long   == P[9] >= 2
             sgn    == a.neg # b.neg
             e      == a.exp + b.exp + (IF long THEN 1 ELSE 0)
             top    == IF long
                       THEN [j \in 1 .. 5 |->
                               (P[j + 4] \div 2) +
                               (IF j < 5 THEN (P[j + 5] % 2) * 4096 ELSE 0)]
                       ELSE [j \in 1 .. 5 |-> P[j + 4]]
             guard  == IF long THEN P[5] % 2 = 1 ELSE P[4] >= 4096
             sticky == \/ P[1] # 0 \/ P[2] # 0 \/ P[3] # 0
                       \/ (IF long THEN P[4] # 0 ELSE P[4] % 4096 # 0)
             up     == guard /\ (sticky \/ top[1] % 2 = 1)
         IN  IF up THEN RoundUp(sgn, e, top)
             ELSE [neg |-> sgn, exp |-> e, man |-> top]

\* |a| < |b| for non-zero doubles
MagLess(a, b) ==
    IF a.exp # b.exp THEN a.exp < b.exp
    ELSE LET D == {i \in 1 .. 5 : a.man[i] # b.man[i]}
         IN  D # {} /\ LET h == CHOOSE i \in D : \A j \in D : j <= i
                       IN  a.man[h] < b.man[h]

\* a < b
DblLess(a, b) ==
    IF a.man = <<>> THEN b.man # <<>> /\ ~b.neg
    ELSE IF b.man = <<>> THEN a.neg
    ELSE IF a.neg # b.neg THEN a.neg
    ELSE IF a.neg THEN MagLess(b, a)
    ELSE MagLess(a, b)

RECURSIVE DigitsValue(_, _)
\* the integer written by digits from..5 of man
DigitsValue(man, from) ==
    IF from > 5 THEN 0 ELSE man[from] + 8192 * DigitsValue(man, from + 1)

\* Math.floor of a double below 2^26 in magnitude, as an integer
DblFloor(a) ==
    IF a.man = <<>> THEN 0
    ELSE IF a.exp < 0 THEN (IF a.neg THEN 0 - 1 ELSE 0)
    ELSE LET shift == (SignificandBits - 1) - a.exp
             w     == shift \div 13
             t     == shift % 13
             high  == DigitsValue(a.man, w + 1)
             whole == high \div Pow2(t)
             frac  == \/ high % Pow2(t) # 0
                      \/ \E j \in 1 .. 5 : j <= w /\ a.man[j] # 0
         IN  IF a.neg THEN (0 - whole) - (IF frac THEN 1 ELSE 0) ELSE whole

(***************************************************************************)
(* Text and numbers of the numeric inputs.  NumberTable lists the texts    *)
(* the model types into the inputs, with the number (milli form) that      *)
(* Number(text) gives; any other text is not a number.                     *)
(***************************************************************************)
NumberTable ==
    { <<"", 0>>, <<"0", 0>>, <<"6", 6000>>, <<"3.7", 3700>>, <<"7", 7000>>,
      <<"100", 100000>>, <<"200", 200000>>, <<"1.5", 1500>>,
      <<"-5", 0 - 5000>>, <<"11", 11000>> }

(***************************************************************************)
(* Values.  Strings that the program builds by joining or interpolating    *)
(* are sequences of string pieces: [1,2].join('|') is <<"1", "|", "2">>.   *)
(* An optional argument that the code only tests for truthiness is given   *)
(* as its falsy value when it is absent: "" for a string, 0 for a number.  *)
(***************************************************************************)
BUFFER_FACTOR == 990

\* constants.ts is not among the sources; the defaults are taken to be the
\* values of the examples in discoverShows (100 votes, rating 6.0), in
\* milli form, and the catalogue's own default order
FILTER_CONFIG ==
    [MIN_VOTES |-> 100000, MIN_RATING |-> 6000, SORT_BY |-> "popularity.desc"]

RECURSIVE Join(_, _)
\* Array.prototype.join on a list of numbers
Join(ids, sep) ==
    IF ids = <<>> THEN <<>>
    ELSE IF Len(ids) = 1 THEN <<ToString(ids[1])>>
    ELSE <<ToString(ids[1]), sep>> \o Join(Tail(ids), sep)

\* the numbers a committed threshold or a record's rating can be (milli form)
Literals ==
    {p[2] : p \in NumberTable} \cup {3663, 5930, 5940, 6930}

\* the double of each, and its product with BUFFER_FACTOR, computed once
Doubles  == [x \in Literals |-> Dbl(x)]
Buffered == [x \in Literals |-> DblMul(Dbl(x), Dbl(BUFFER_FACTOR))]

\* the votes threshold without the buffer
TargetVotesUnbuffered(minVotes) == DblFloor(Dbl(minVotes))

\* Math.floor(options.minVotes * BUFFER_FACTOR)
TargetVotes(minVotes) ==
    IF minVotes \in Literals THEN DblFloor(Buffered[minVotes])
    ELSE DblFloor(DblMul(Dbl(minVotes), Dbl(BUFFER_FACTOR)))

\* options.minRating * BUFFER_FACTOR
TargetRating(minRating) ==
    IF minRating \in Literals THEN Buffered[minRating]
    ELSE DblMul(Dbl(minRating), Dbl(BUFFER_FACTOR))

\* the double a record's vote_average was parsed to
Rating(show) ==
    IF show.vote_average \in Literals THEN Doubles[show.vote_average]
    ELSE Dbl(show.vote_average)

\* the separators exchanged
GenreSeparatorSwapped(genreMode) == IF genreMode = "AND" THEN "|" ELSE ","

\* the separator of with_genres
GenreSeparator(genreMode) == IF genreMode = "AND" THEN "," ELSE "|"

\* queryParams of discoverShows: a function from the parameter names that
\* are sent to their values.  Number.prototype.toString of the double
\* targetRating gives the shortest decimal that reads back as that double,
\* so the text and the double determine each other: the parameter is kept
\* as the double.
DiscoverQueryParams(key, pg, options) ==
    LET base ==
            ("api_key" :> key)
         @@ ("sort_by" :> IF options.sortBy # "" THEN options.sortBy
                          ELSE FILTER_CONFIG.SORT_BY)
         @@ ("vote_count.gte" :> ToString(TargetVotes(options.minVotes)))
         @@ ("vote_average.gte" :> TargetRating(options.minRating))
         @@ ("page" :> ToString(pg))
         @@ ("language" :> "en-US")
        gte  == IF options.minYear # 0
                THEN "first_air_date.gte" :>
                         <<ToString(options.minYear), "-01-01">>
                ELSE <<>>
        lte  == IF options.maxYear # 0
                THEN "first_air_date.lte" :>
                         <<ToString(options.maxYear), "-12-31">>
                ELSE <<>>
        with == IF Len(options.withGenres) > 0
                THEN "with_genres" :>
                         Join(options.withGenres,
                              GenreSeparator(options.genreMode))
                ELSE <<>>
        without == IF Len(options.withoutGenres) > 0
                   THEN "without_genres" :> Join(options.withoutGenres, ",")
                   ELSE <<>>
        lang == IF options.withOriginalLanguage # ""
                THEN "with_original_language" :> options.withOriginalLanguage
                ELSE <<>>
        people == IF options.withPeople # ""
                  THEN "with_people" :> options.withPeople
                  ELSE <<>>
    IN  base @@ gte @@ lte @@ with @@ without @@ lang @@ people

\* the predicate of data.results.filter in discoverShows
KeepShow(show, targetVotes, targetRating) ==
    /\ ~(show.vote_count < targetVotes)
    /\ ~DblLess(Rating(show), targetRating)

RECURSIVE Reverse(_)
Reverse(list) ==
    IF list = <<>> THEN <<>> ELSE Reverse(Tail(list)) \o <<Head(list)>>

\* the client-side filter handing over the kept records last first
FilterResultsReversed(results, minVotes, minRating) ==
    LET tv == TargetVotes(minVotes)
        tr == TargetRating(minRating)
        Keep(show) == KeepShow(show, tv, tr)
    IN  Reverse(SelectSeq(results, Keep))

\* data.results after the client-side filter
FilterResults(results, minVotes, minRating) ==
    LET tv == TargetVotes(minVotes)
        tr == TargetRating(minRating)
        Keep(show) == KeepShow(show, tv, tr)
    IN  SelectSeq(results, Keep)

\* the request of searchShows: encodeURIComponent leaves letters alone and
\* writes a space as %20
EncodeURIComponent(text) ==
    [i \in 1 .. Len(text) |-> IF text[i] = " " THEN "%20" ELSE text[i]]

\* the URL that searchShows fetches
SearchRequest(key, text, pg) ==
    [path |-> "/search/tv",
     params |-> ("api_key" :> key)
             @@ ("query" :> EncodeURIComponent(text))
             @@ ("page" :> ToString(pg))
             @@ ("language" :> "en-US")]

\* the URL that discoverShows fetches
DiscoverRequest(key, pg, options) ==
    [path |-> "/discover/tv",
     params |-> DiscoverQueryParams(key, pg, options)]

\* Number(text): [nan, v]
Number(text) ==
    IF \E p \in NumberTable : p[1] = text
    THEN [nan |-> FALSE, v |-> (CHOOSE p \in NumberTable : p[1] = text)[2]]
    ELSE [nan |-> TRUE, v |-> 0]

\* String(n) for a number of the table
String(n) == (CHOOSE p \in NumberTable : p[2] = n /\ p[1] # "")[1]

\* the debounce callback falling back to the default for a text that is
\* not a number
CommitNumberDefault(text) ==
    LET n == IF text = "" THEN [nan |-> FALSE, v |-> 0] ELSE Number(text)
    IN  IF n.nan THEN FILTER_CONFIG.MIN_VOTES ELSE n.v

\* the value the debounce callback commits for a raw input text
\*   const votes = minVotes === '' ? 0 : Number(minVotes);  isNaN(votes) ? 0 : votes
CommitNumber(text) ==
    LET n == IF text = "" THEN [nan |-> FALSE, v |-> 0] ELSE Number(text)
    IN  IF n.nan THEN 0 ELSE n.v

CURRENT_YEAR == 2026
MIN_YEAR_LIMIT == 1900
MAX_YEAR_LIMIT == CURRENT_YEAR + 5

\* the delays of the two setTimeout calls, in ticks of 100 ms
SEARCH_DEBOUNCE == 5
FILTER_DEBOUNCE == 6

\* bounds of the model
MaxInflight == 2
MaxPages == 2
MaxGenre == 2
MaxResults == 2
MaxClock == 2
MaxItems == 3
\* the runs of a card's details effect whose fetchDetails has not returned
MaxDetailCalls == 3

(***************************************************************************)
(* State of App (src/App.tsx).  null strings are "" (the code only tests   *)
(* them for truthiness); selectedPerson is <<>> for null and <<person>>    *)
(* for an object; a timer is {} when none is pending and {r} when one      *)
(* fires in r ticks.                                                       *)
(***************************************************************************)
VARIABLES
    mounted,              \* the mount effects have run
    localKey,             \* localStorage['tmdb_api_key']
    apiKey, viewMode, shows, page, loading, error, totalPages,
    searchQuery, debouncedSearchQuery,
    includedGenres, excludedGenres, genreMode, selectedPerson,
    minVotes, minRating, language, yearRange, sortBy, debouncedFilters,
    watchlistSortBy,
    searchTimer,          \* the pending timer of the search debounce effect
    filterTimer,          \* the pending timer of the numeric debounce effect
    inflight,             \* the loadData calls awaiting their response:
                          \* what each continuation holds
    requested,            \* the request of the latest fetch
    sinceSearch,          \* ticks since searchQuery was last updated
    sinceFilter,          \* ticks since minVotes/minRating/yearRange were
    burst,                \* the current burst of numeric updates
    dpc, call, sent, upstream, returned,  \* one call of discoverShows
    stored,               \* localStorage['cultivated_watchlist']: <<>> for
                          \* null, <<text>> for a string
    watchlist,            \* the watchlist state of each useWatchlist instance
    hookMounted,          \* the instances whose effect has run
    storageEvents,        \* the tabs with a 'storage' event to be delivered
    now,                  \* Date.now()
    notified,             \* the last hook call dispatched 'watchlist-updated'
    kept,                 \* ids added and not removed since
    card,                 \* the state of one ShowCard
    detailCalls           \* the runs of its details effect whose
                          \* fetchDetails has not returned

filterVars == <<includedGenres, excludedGenres, genreMode, selectedPerson,
                language, sortBy>>
rawVars    == <<searchQuery, minVotes, minRating, yearRange>>
commitVars == <<debouncedSearchQuery, debouncedFilters>>
resultVars == <<shows, totalPages>>
appVars    == <<mounted, localKey, apiKey, viewMode, page, loading, error,
                filterVars, rawVars, commitVars, resultVars,
                searchTimer, filterTimer, inflight, requested,
                watchlistSortBy>>
obsVars    == <<sinceSearch, sinceFilter, burst>>
pureVars   == <<dpc, call, sent, upstream, returned>>
hookVars   == <<stored, watchlist, hookMounted, storageEvents, now,
                notified, kept>>
watchVars  == <<hookVars, watchlistSortBy>>
cardVars   == <<card, detailCalls>>
vars       == <<appVars, obsVars, pureVars, hookVars, cardVars>>

NoBurst == [n |-> 0, commits |-> 0, fetches |-> 0]

\* the options loadData passes to discoverShows
DiscoverOptions(inc, exc, lang, person, df, mode, sort) ==
    [withGenres           |-> inc,
     withoutGenres        |-> exc,
     withOriginalLanguage |-> lang,
     withPeople           |-> IF person # <<>> THEN ToString(person[1].id)
                              ELSE "",
     minVotes             |-> df.minVotes,
     minRating            |-> df.minRating,
     minYear              |-> df.minYear,
     maxYear              |-> df.maxYear,
     genreMode            |-> mode,
     sortBy               |-> sort]

\* loadData calling discoverShows whatever the committed search text is
LoadDataDiscoverOnly(key, dsq, pg, inc, exc, lang, person, df, mode, sort) ==
    DiscoverRequest(key, pg,
        DiscoverOptions(inc, exc, lang, person, df, mode, sort))

\* the request loadData has its service fetch
LoadDataRequest(key, dsq, pg, inc, exc, lang, person, df, mode, sort) ==
    IF dsq # <<>>
    THEN SearchRequest(key, dsq, pg)
    ELSE DiscoverRequest(key, pg,
             DiscoverOptions(inc, exc, lang, person, df, mode, sort))

\* what the pending promise keeps for its continuation: which service was
\* called, and the thresholds of its client-side filter
LoadDataCall(dsq, df) ==
    IF dsq # <<>>
    THEN [search |-> TRUE, minVotes |-> 0, minRating |-> 0]
    ELSE [search |-> FALSE, minVotes |-> df.minVotes,
          minRating |-> df.minRating]

NoRequest == [path |-> "", params |-> <<>>]

InitApp ==
    /\ mounted = FALSE
    /\ localKey \in {"", "k1"}
    /\ apiKey = ""
    /\ viewMode = "discover"
    /\ shows = <<>>
    /\ page = 1
    /\ loading = FALSE
    /\ error = ""
    /\ totalPages = 0
    /\ searchQuery = <<>>
    /\ debouncedSearchQuery = <<>>
    /\ includedGenres = <<>>
    /\ excludedGenres = <<>>
    /\ genreMode = "OR"
    /\ selectedPerson = <<>>
    /\ minVotes = String(FILTER_CONFIG.MIN_VOTES)
    /\ minRating = String(FILTER_CONFIG.MIN_RATING)
    /\ language = "en"
    /\ yearRange = <<MIN_YEAR_LIMIT, MAX_YEAR_LIMIT>>
    /\ sortBy = "first_air_date.desc"
    /\ watchlistSortBy = "addedAt.desc"
    /\ debouncedFilters = [minVotes |-> FILTER_CONFIG.MIN_VOTES,
                           minRating |-> FILTER_CONFIG.MIN_RATING,
                           minYear |-> MIN_YEAR_LIMIT,
                           maxYear |-> MAX_YEAR_LIMIT]
    /\ searchTimer = {}
    /\ filterTimer = {}
    /\ inflight = <<>>
    /\ requested = NoRequest
    /\ sinceSearch = 0
    /\ sinceFilter = 0
    /\ burst = NoBurst

\* no call of discoverShows is being followed
NoCall == [key |-> "", page |-> 0, options |-> <<>>]

IdlePure ==
    /\ dpc = "idle"
    /\ call = NoCall
    /\ sent = NoRequest
    /\ upstream = <<>>
    /\ returned = <<>>

Min(a, b) == IF a < b THEN a ELSE b

(***************************************************************************)
(* The render that follows a handler.  The handler's state updates are     *)
(* batched; then the effects whose dependencies changed run:               *)
(*   search debounce effect   [searchQuery, viewMode]                      *)
(*   numeric debounce effect  [minVotes, minRating, yearRange, viewMode]   *)
(*   fetch effect             [loadData, apiKey, viewMode]                 *)
(* Arrays and objects are compared by identity: newRange / newIdentity     *)
(* say that the handler stored a fresh array or object.                    *)
(***************************************************************************)
\* the search debounce effect with a delay one tick short
SearchTimerAfterShort(base) ==
    IF searchQuery' # searchQuery \/ viewMode' # viewMode
    THEN {SEARCH_DEBOUNCE - 1} ELSE base

\* the search debounce effect: its cleanup clears the timer, its body sets one
SearchTimerAfter(base) ==
    IF searchQuery' # searchQuery \/ viewMode' # viewMode
    THEN {SEARCH_DEBOUNCE} ELSE base

\* the numeric debounce effect without its cleanup: the old timer stays
FilterTimerAfterNoCleanup(base, newRange) ==
    IF \/ minVotes' # minVotes \/ minRating' # minRating
       \/ newRange \/ viewMode' # viewMode
    THEN base \cup {FILTER_DEBOUNCE} ELSE base

\* the numeric debounce effect: its cleanup clears the timer, its body sets one
FilterTimerAfter(base, newRange) ==
    IF \/ minVotes' # minVotes \/ minRating' # minRating
       \/ newRange \/ viewMode' # viewMode
    THEN {FILTER_DEBOUNCE} ELSE base

\* useCallback gives a new loadData when one of its dependencies changed
LoadDataChanged(newIdentity) ==
    \/ newIdentity
    \/ apiKey' # apiKey \/ page' # page \/ language' # language
    \/ selectedPerson' # selectedPerson
    \/ debouncedSearchQuery' # debouncedSearchQuery
    \/ genreMode' # genreMode \/ sortBy' # sortBy \/ viewMode' # viewMode

\* loadData() up to its await, called in the render of the primed state
LoadData ==
    IF apiKey' = "" \/ viewMode' = "watchlist"
    THEN UNCHANGED <<inflight, requested, loading, error>>
    ELSE /\ Len(inflight) < MaxInflight
         /\ requested' =
                LoadDataRequest(apiKey', debouncedSearchQuery', page',
                                includedGenres', excludedGenres', language',
                                selectedPerson', debouncedFilters',
                                genreMode', sortBy')
         /\ inflight' = Append(inflight,
                LoadDataCall(debouncedSearchQuery', debouncedFilters'))
         /\ loading' = TRUE
         /\ error' = ""

\* the fetch effect and loadData without their tests of viewMode
FetchEffectAnyView(newIdentity) ==
    IF (LoadDataChanged(newIdentity) \/ apiKey' # apiKey \/ viewMode' # viewMode)
       /\ apiKey' # ""
    THEN /\ Len(inflight) < MaxInflight
         /\ requested' =
                LoadDataRequest(apiKey', debouncedSearchQuery', page',
                                includedGenres', excludedGenres', language',
                                selectedPerson', debouncedFilters',
                                genreMode', sortBy')
         /\ inflight' = Append(inflight,
                LoadDataCall(debouncedSearchQuery', debouncedFilters'))
         /\ loading' = TRUE
         /\ error' = ""
    ELSE UNCHANGED <<inflight, requested, loading, error>>

\* the fetch effect
FetchEffect(newIdentity) ==
    IF (LoadDataChanged(newIdentity) \/ apiKey' # apiKey \/ viewMode' # viewMode)
       /\ apiKey' # "" /\ viewMode' = "discover"
    THEN LoadData
    ELSE UNCHANGED <<inflight, requested, loading, error>>

\* the observers: kind is "update" for an onChange of a numeric input,
\* "commit" for the numeric debounce callback, "break" for a step that ends
\* the burst (view switch, credential loss, reset), "other" otherwise
Observe(kind, newRange) ==
    LET fetched == IF Len(inflight') > Len(inflight) THEN 1 ELSE 0
        open    == burst.n >= 1 /\ burst.commits = 0
        from    == IF open THEN burst ELSE NoBurst
    IN  /\ sinceSearch' = IF searchQuery' # searchQuery THEN 0 ELSE sinceSearch
        /\ sinceFilter' = IF \/ minVotes' # minVotes \/ minRating' # minRating
                             \/ newRange
                          THEN 0 ELSE sinceFilter
        /\ burst' = CASE kind = "update" ->
                           [n       |-> Min(from.n + 1, 2),
                            commits |-> from.commits,
                            fetches |-> Min(from.fetches + fetched, 2)]
                      [] kind = "commit" ->
                           IF burst.n >= 1
                           THEN [n       |-> burst.n,
                                 commits |-> Min(burst.commits + 1, 2),
                                 fetches |-> Min(burst.fetches + fetched, 2)]
                           ELSE burst
                      [] kind = "break" -> NoBurst
                      [] OTHER -> burst

\* the tail of a handler: effects, then observers
Render(newIdentity, newRange, kind) ==
    /\ searchTimer' = SearchTimerAfter(searchTimer)
    /\ filterTimer' = FilterTimerAfter(filterTimer, newRange)
    /\ FetchEffect(newIdentity)
    /\ Observe(kind, newRange)
    /\ UNCHANGED <<mounted, resultVars, pureVars, watchVars, cardVars>>

(***************************************************************************)
(* Mount: the effects of the first render.  Both debounce timers start,    *)
(* the stored credential is read (and a legacy one in sessionStorage is    *)
(* migrated), and the render that follows setApiKey runs the fetch effect. *)
(***************************************************************************)
Mount(sessionKey) ==
    /\ ~mounted
    /\ mounted' = TRUE
    /\ apiKey' = IF localKey # "" THEN localKey ELSE sessionKey
    /\ localKey' = IF localKey # "" THEN localKey ELSE sessionKey
    /\ searchTimer' = {SEARCH_DEBOUNCE}
    /\ filterTimer' = {FILTER_DEBOUNCE}
    /\ UNCHANGED <<viewMode, page, filterVars, rawVars, commitVars,
                   resultVars, obsVars, pureVars, watchVars, cardVars>>
    /\ LoadData

\* handleSetKey: the credential screen (shown while apiKey is null) submits
HandleSetKey(key) ==
    /\ mounted /\ apiKey = "" /\ key # ""
    /\ localKey' = key
    /\ apiKey' = key
    /\ UNCHANGED <<viewMode, page, filterVars, rawVars, commitVars,
                   searchTimer, filterTimer, resultVars, obsVars, pureVars,
                   watchVars, cardVars,
                   mounted>>
    /\ IF viewMode = "discover" THEN LoadData
       ELSE error' = "" /\ UNCHANGED <<inflight, requested, loading>>

\* the "Reset Key" button
ResetKey ==
    /\ mounted /\ apiKey # ""
    /\ apiKey' = ""
    /\ localKey' = ""
    /\ UNCHANGED <<viewMode, page, filterVars, rawVars, commitVars>>
    /\ Render(FALSE, FALSE, "break")

\* the view mode buttons
SetViewMode(mode) ==
    /\ mounted /\ apiKey # "" /\ mode # viewMode
    /\ viewMode' = mode
    /\ UNCHANGED <<apiKey, localKey, page, filterVars, rawVars, commitVars>>
    /\ Render(FALSE, FALSE, "break")

\* onChange of the search input (shown in both view modes)
SetSearchQuery(text) ==
    /\ mounted /\ apiKey # "" /\ text # searchQuery
    /\ searchQuery' = text
    /\ UNCHANGED <<apiKey, localKey, viewMode, page, filterVars,
                   minVotes, minRating, yearRange, commitVars>>
    /\ Render(FALSE, FALSE, "other")

\* the callback of the search debounce timer
SearchDebounceFires ==
    /\ 0 \in searchTimer
    /\ debouncedSearchQuery' = searchQuery
    /\ page' = IF viewMode = "discover" THEN 1 ELSE page
    /\ UNCHANGED <<apiKey, localKey, viewMode, filterVars, rawVars,
                   debouncedFilters>>
    /\ searchTimer' = SearchTimerAfter(searchTimer \ {0})
    /\ filterTimer' = FilterTimerAfter(filterTimer, FALSE)
    /\ FetchEffect(FALSE)
    /\ Observe("other", FALSE)
    /\ UNCHANGED <<mounted, resultVars, pureVars, watchVars, cardVars>>

\* onChange of the votes input (discover mode only)
SetMinVotes(text) ==
    /\ mounted /\ apiKey # "" /\ viewMode = "discover" /\ text # minVotes
    /\ minVotes' = text
    /\ UNCHANGED <<apiKey, localKey, viewMode, page, filterVars,
                   searchQuery, minRating, yearRange, commitVars>>
    /\ Render(FALSE, FALSE, "update")

\* onChange of the rating input
SetMinRating(text) ==
    /\ mounted /\ apiKey # "" /\ viewMode = "discover" /\ text # minRating
    /\ minRating' = text
    /\ UNCHANGED <<apiKey, localKey, viewMode, page, filterVars,
                   searchQuery, minVotes, yearRange, commitVars>>
    /\ Render(FALSE, FALSE, "update")

\* onChange of YearRangeSelector: the end of a drag that moved a handle
\* hands over a fresh array, also when its values are the old ones
SetYearRange(range) ==
    /\ mounted /\ apiKey # "" /\ viewMode = "discover"
    /\ MIN_YEAR_LIMIT <= range[1] /\ range[1] <= range[2]
    /\ range[2] <= MAX_YEAR_LIMIT
    /\ yearRange' = range
    /\ UNCHANGED <<apiKey, localKey, viewMode, page, filterVars,
                   searchQuery, minVotes, minRating, commitVars>>
    /\ Render(FALSE, TRUE, "update")

\* the callback of the numeric debounce timer
FilterDebounceFires ==
    /\ 0 \in filterTimer
    /\ debouncedFilters' = [minVotes  |-> CommitNumber(minVotes),
                            minRating |-> CommitNumber(minRating),
                            minYear   |-> yearRange[1],
                            maxYear   |-> yearRange[2]]
    /\ page' = IF viewMode = "discover" THEN 1 ELSE page
    /\ UNCHANGED <<apiKey, localKey, viewMode, filterVars, rawVars,
                   debouncedSearchQuery>>
    /\ searchTimer' = SearchTimerAfter(searchTimer)
    /\ filterTimer' = FilterTimerAfter(filterTimer \ {0}, FALSE)
    /\ FetchEffect(TRUE)
    /\ Observe("commit", FALSE)
    /\ UNCHANGED <<mounted, resultVars, pureVars, watchVars, cardVars>>

IsNumericFilterActive ==
    LET currentRating == Number(minRating)
        currentVotes  == Number(minVotes)
        isYearDefault == yearRange = <<MIN_YEAR_LIMIT, MAX_YEAR_LIMIT>>
    IN  \/ currentRating.nan \/ currentRating.v # FILTER_CONFIG.MIN_RATING
        \/ currentVotes.nan \/ currentVotes.v # FILTER_CONFIG.MIN_VOTES
        \/ ~isYearDefault

\* resetNumericFilters (the RESET button, shown while a numeric filter is set)
ResetNumericFilters ==
    /\ mounted /\ apiKey # "" /\ viewMode = "discover"
    /\ IsNumericFilterActive
    /\ minRating' = String(FILTER_CONFIG.MIN_RATING)
    /\ minVotes' = String(FILTER_CONFIG.MIN_VOTES)
    /\ yearRange' = <<MIN_YEAR_LIMIT, MAX_YEAR_LIMIT>>
    /\ page' = 1
    /\ UNCHANGED <<apiKey, localKey, viewMode, filterVars, searchQuery,
                   commitVars>>
    /\ Render(FALSE, TRUE, "break")

\* array.includes(id)
Includes(list, id) == \E i \in 1 .. Len(list) : list[i] = id

\* array.filter(g => g !== id)
Without(list, id) == LET Keep(g) == g # id IN SelectSeq(list, Keep)

\* handleGenreToggle with an included id left in includedGenres
ToggleGenreKeepsIncluded(inc, exc, id) ==
    IF Includes(inc, id)
    THEN [inc |-> inc, exc |-> Append(exc, id)]
    ELSE IF Includes(exc, id)
    THEN [inc |-> inc, exc |-> Without(exc, id)]
    ELSE [inc |-> Append(inc, id), exc |-> exc]

\* handleGenreToggle with an excluded id sent back to included
ToggleGenreTwoStates(inc, exc, id) ==
    IF Includes(inc, id)
    THEN [inc |-> Without(inc, id), exc |-> Append(exc, id)]
    ELSE IF Includes(exc, id)
    THEN [inc |-> Append(inc, id), exc |-> Without(exc, id)]
    ELSE [inc |-> Append(inc, id), exc |-> exc]

\* the three branches of handleGenreToggle on (includedGenres, excludedGenres)
ToggleGenre(inc, exc, id) ==
    IF Includes(inc, id)
    THEN [inc |-> Without(inc, id), exc |-> Append(exc, id)]
    ELSE IF Includes(exc, id)
    THEN [inc |-> inc, exc |-> Without(exc, id)]
    ELSE [inc |-> Append(inc, id), exc |-> exc]

\* handleGenreToggle without its setPage(1)
HandleGenreToggleKeepsPage(id) ==
    /\ mounted /\ apiKey # "" /\ viewMode = "discover"
    /\ LET t == ToggleGenre(includedGenres, excludedGenres, id)
       IN  /\ includedGenres' = t.inc
           /\ excludedGenres' = t.exc
    /\ UNCHANGED <<apiKey, localKey, viewMode, page, genreMode,
                   selectedPerson, language, sortBy, rawVars, commitVars>>
    /\ Render(TRUE, FALSE, "other")

\* handleGenreToggle: every branch stores at least one fresh array
HandleGenreToggle(id) ==
    /\ mounted /\ apiKey # "" /\ viewMode = "discover"
    /\ LET t == ToggleGenre(includedGenres, excludedGenres, id)
       IN  /\ includedGenres' = t.inc
           /\ excludedGenres' = t.exc
    /\ page' = 1
    /\ UNCHANGED <<apiKey, localKey, viewMode, genreMode, selectedPerson,
                   language, sortBy, rawVars, commitVars>>
    /\ Render(TRUE, FALSE, "other")

\* clearGenres without its setExcludedGenres([])
ClearGenresKeepsExcluded ==
    /\ mounted /\ apiKey # "" /\ viewMode = "discover"
    /\ \/ Len(includedGenres) > 0 \/ Len(excludedGenres) > 0
       \/ selectedPerson # <<>>
    /\ includedGenres' = <<>>
    /\ selectedPerson' = <<>>
    /\ page' = 1
    /\ UNCHANGED <<apiKey, localKey, viewMode, genreMode, language, sortBy,
                   excludedGenres, rawVars, commitVars>>
    /\ Render(TRUE, FALSE, "other")


\* clearGenres (the Clear button, shown while a genre or a person is set)
ClearGenres ==
    /\ mounted /\ apiKey # "" /\ viewMode = "discover"
    /\ \/ Len(includedGenres) > 0 \/ Len(excludedGenres) > 0
       \/ selectedPerson # <<>>
    /\ includedGenres' = <<>>
    /\ excludedGenres' = <<>>
    /\ selectedPerson' = <<>>
    /\ page' = 1
    /\ UNCHANGED <<apiKey, localKey, viewMode, genreMode, language, sortBy,
                   rawVars, commitVars>>
    /\ Render(TRUE, FALSE, "other")

\* toggleGenreMode
ToggleGenreMode ==
    /\ mounted /\ apiKey # "" /\ viewMode = "discover"
    /\ genreMode' = IF genreMode = "OR" THEN "AND" ELSE "OR"
    /\ page' = 1
    /\ UNCHANGED <<apiKey, localKey, viewMode, includedGenres, excludedGenres,
                   selectedPerson, language, sortBy, rawVars, commitVars>>
    /\ Render(FALSE, FALSE, "other")

\* onSelect of the discover SortSelector
SetSortBy(val) ==
    /\ mounted /\ apiKey # "" /\ viewMode = "discover"
    /\ sortBy' = val
    /\ page' = 1
    /\ UNCHANGED <<apiKey, localKey, viewMode, includedGenres, excludedGenres,
                   genreMode, selectedPerson, language, rawVars, commitVars>>
    /\ Render(FALSE, FALSE, "other")

\* onSelect of the LanguageSelector
SetLanguage(code) ==
    /\ mounted /\ apiKey # "" /\ viewMode = "discover"
    /\ language' = code
    /\ page' = 1
    /\ UNCHANGED <<apiKey, localKey, viewMode, includedGenres, excludedGenres,
                   genreMode, selectedPerson, sortBy, rawVars, commitVars>>
    /\ Render(FALSE, FALSE, "other")

\* the pagination bar rendered only under a page with several records
PaginationShownFullPage ==
    /\ apiKey # "" /\ viewMode = "discover"
    /\ ~loading /\ error = "" /\ Len(shows) > 1

\* the pagination bar is rendered under this condition
PaginationShown ==
    /\ apiKey # "" /\ viewMode = "discover"
    /\ ~loading /\ error = "" /\ Len(shows) > 0

\* the Previous button (disabled on page 1)
PreviousPage ==
    /\ mounted /\ PaginationShown /\ page # 1
    /\ page' = IF page - 1 > 1 THEN page - 1 ELSE 1
    /\ UNCHANGED <<apiKey, localKey, viewMode, filterVars, rawVars, commitVars>>
    /\ Render(FALSE, FALSE, "other")

\* the Next Page button (disabled when page >= totalPages)
NextPage ==
    /\ mounted /\ PaginationShown /\ ~(page >= totalPages)
    /\ page' = page + 1
    /\ UNCHANGED <<apiKey, localKey, viewMode, filterVars, rawVars, commitVars>>
    /\ Render(FALSE, FALSE, "other")

\* the Retry button of the error view calls loadData()
Retry ==
    /\ mounted /\ apiKey # "" /\ viewMode = "discover"
    /\ ~loading /\ error # ""
    /\ UNCHANGED <<apiKey, localKey, viewMode, page, filterVars, rawVars,
                   commitVars, searchTimer, filterTimer, mounted, resultVars,
                   obsVars, pureVars, watchVars, cardVars>>
    /\ LoadData

\* list without its i-th element
RemoveAt(list, i) == SubSeq(list, 1, i - 1) \o SubSeq(list, i + 1, Len(list))

\* loadData with a request-generation guard: only the response of the call
\* issued last is stored, an older one is dropped
FetchSucceedsLatestOnly(i, results, total) ==
    /\ i \in 1 .. Len(inflight)
    /\ IF i = Len(inflight)
       THEN /\ shows' = IF inflight[i].search THEN results
                         ELSE FilterResults(results, inflight[i].minVotes,
                                            inflight[i].minRating)
            /\ totalPages' = total
       ELSE UNCHANGED <<shows, totalPages>>
    /\ loading' = FALSE
    /\ inflight' = RemoveAt(inflight, i)
    /\ UNCHANGED <<requested, mounted, apiKey, localKey, viewMode, page, error,
                   filterVars, rawVars, commitVars, searchTimer, filterTimer,
                   obsVars, pureVars, watchVars, cardVars>>

\* a pending call is answered with 200: discoverShows filters the results,
\* searchShows returns them as they are; loadData stores them
FetchSucceeds(i, results, total) ==
    /\ i \in 1 .. Len(inflight)
    /\ shows' = IF inflight[i].search THEN results
                ELSE FilterResults(results, inflight[i].minVotes,
                                   inflight[i].minRating)
    /\ totalPages' = total
    /\ loading' = FALSE
    /\ inflight' = RemoveAt(inflight, i)
    /\ UNCHANGED <<requested, mounted, apiKey, localKey, viewMode, page, error,
                   filterVars, rawVars, commitVars, searchTimer, filterTimer,
                   obsVars, pureVars, watchVars, cardVars>>

\* the catch of loadData without its localStorage.removeItem
FetchUnauthorizedKeepsStored(i) ==
    /\ i \in 1 .. Len(inflight)
    /\ apiKey' = ""
    /\ error' = "Invalid API Key provided. Please try again."
    /\ loading' = FALSE
    /\ inflight' = RemoveAt(inflight, i)
    /\ UNCHANGED <<requested, mounted, viewMode, page, filterVars, rawVars,
                   commitVars, searchTimer, filterTimer, resultVars,
                   sinceSearch, sinceFilter, pureVars, watchVars, cardVars,
                   localKey>>
    /\ burst' = NoBurst

\* a pending call is answered with 401: "Invalid API Key" is thrown and caught
FetchUnauthorized(i) ==
    /\ i \in 1 .. Len(inflight)
    /\ apiKey' = ""
    /\ localKey' = ""
    /\ error' = "Invalid API Key provided. Please try again."
    /\ loading' = FALSE
    /\ inflight' = RemoveAt(inflight, i)
    /\ UNCHANGED <<requested, mounted, viewMode, page, filterVars, rawVars,
                   commitVars, searchTimer, filterTimer, resultVars,
                   sinceSearch, sinceFilter, pureVars, watchVars, cardVars>>
    /\ burst' = NoBurst

\* a pending call fails otherwise (another status, or the fetch rejects)
FetchFails(i) ==
    /\ i \in 1 .. Len(inflight)
    /\ error' = "Failed to fetch shows. Please try again later."
    /\ loading' = FALSE
    /\ inflight' = RemoveAt(inflight, i)
    /\ UNCHANGED <<requested, mounted, apiKey, localKey, viewMode, page,
                   filterVars, rawVars, commitVars, searchTimer, filterTimer,
                   resultVars, obsVars, pureVars, watchVars, cardVars>>

\* 100 ms pass.  A timer that is due fires before more time passes.
Tick ==
    /\ mounted
    /\ 0 \notin (searchTimer \cup filterTimer)
    /\ searchTimer' = {r - 1 : r \in searchTimer}
    /\ filterTimer' = {r - 1 : r \in filterTimer}
    /\ sinceSearch' = Min(sinceSearch + 1, SEARCH_DEBOUNCE)
    /\ sinceFilter' = Min(sinceFilter + 1, FILTER_DEBOUNCE)
    /\ UNCHANGED <<requested, mounted, apiKey, localKey, viewMode, page,
                   loading, error, filterVars, rawVars, commitVars,
                   resultVars, inflight, burst, pureVars, watchVars, cardVars>>

(***************************************************************************)
(* One call of discoverShows(apiKey, page, options), on its own: call is   *)
(* its arguments, sent the request it fetches, upstream the results of the *)
(* response, returned the results of the value it resolves to.             *)
(***************************************************************************)

\* discoverShows up to its await
DiscoverShows ==
    /\ dpc = "called"
    /\ sent' = DiscoverRequest(call.key, call.page, call.options)
    /\ dpc' = "fetching"
    /\ UNCHANGED <<call, upstream, returned, appVars, obsVars, hookVars,
                   cardVars>>

\* response.ok: the results are filtered and the data returned
DiscoverResolves(results) ==
    /\ dpc = "fetching"
    /\ upstream' = results
    /\ returned' = FilterResults(results, call.options.minVotes,
                                 call.options.minRating)
    /\ dpc' = "returned"
    /\ UNCHANGED <<call, sent, appVars, obsVars, hookVars, cardVars>>

\* status 401: throw new Error("Invalid API Key")
DiscoverRejectsKey ==
    /\ dpc = "fetching"
    /\ dpc' = "Invalid API Key"
    /\ UNCHANGED <<call, sent, upstream, returned, appVars, obsVars,
                   hookVars, cardVars>>

\* any other status: throw new Error(`API Error: ...`)
DiscoverFails ==
    /\ dpc = "fetching"
    /\ dpc' = "API Error"
    /\ UNCHANGED <<call, sent, upstream, returned, appVars, obsVars,
                   hookVars, cardVars>>

(***************************************************************************)
(* useWatchlist (src/hooks/useWatchlist.ts).  An instance of the hook is a *)
(* component of a tab that called useWatchlist(): <<tab, component>>; the  *)
(* instances followed are App and one card of tab A and one card of tab B. *)
(* The tabs share localStorage and the clock.  A handler of one tab runs   *)
(* to its end, with the 'watchlist-updated' listeners it dispatches to,    *)
(* before anything else happens in that tab; a 'storage' event reaches     *)
(* the other tabs later, one tab at a time.                                *)
(*                                                                         *)
(* bingeHours is 0 where the code has undefined (the card passes           *)
(* bingeHours || undefined, the readers use bingeHours || 0).              *)
(***************************************************************************)
Tabs  == {"A", "B"}
Hooks == {<<"A", "App">>, <<"A", "ShowCard">>, <<"B", "ShowCard">>}

\* newItem: { ...show, addedAt: Date.now(), bingeHours }
WatchlistItem(show, t, hours) ==
    ("addedAt" :> t) @@ ("bingeHours" :> hours) @@ show

\* JSON.stringify of a list of items: a property that is undefined is left out
JsonStringify(list) ==
    [i \in 1 .. Len(list) |->
        IF list[i].bingeHours = 0
        THEN [f \in DOMAIN list[i] \ {"bingeHours"} |-> list[i][f]]
        ELSE list[i]]

\* texts the hook never writes, kept as one-record sequences like the
\* texts it does write: the text '{}' (its value, the object {}, is kept
\* the same way) and a text that is not JSON
ObjectText == <<[object |-> TRUE]>>
EmptyObject == ObjectText
SyntaxErrorText == <<[syntaxError |-> TRUE]>>

\* JSON.parse of a text that is JSON: in the text of a list of items a
\* property that is left out reads as undefined
JsonParse(text) ==
    IF text = ObjectText THEN EmptyObject
    ELSE [i \in 1 .. Len(text) |->
             IF "bingeHours" \in DOMAIN text[i] THEN text[i]
             ELSE ("bingeHours" :> 0) @@ text[i]]

\* loadWatchlist never reading the storage
LoadWatchlistKeeps(list, st) == list

\* loadWatchlist failing open: an absent value, a text that is not JSON
\* and a value that is not an array all give the empty list
LoadWatchlistFailsOpen(list, st) ==
    IF st = <<>> \/ st[1] = SyntaxErrorText \/ st[1] = ObjectText THEN <<>>
    ELSE JsonParse(st[1])

\* loadWatchlist: the state of an instance after it, given the storage.
\* getItem gives null: nothing is set; JSON.parse throws: caught, nothing
\* is set; otherwise the value parsed is set, whatever it is
LoadWatchlist(list, st) ==
    IF st = <<>> THEN list
    ELSE IF st[1] = SyntaxErrorText THEN list
    ELSE JsonParse(st[1])

\* the listeners of a tab run: every mounted instance of the tab reloads
Dispatch(tab, lists, st) ==
    [h \in Hooks |-> IF h \in hookMounted /\ h[1] = tab
                     THEN LoadWatchlist(lists[h], st) ELSE lists[h]]

\* the tabs that get a 'storage' event for a write: the other tabs with a
\* listener, when the value changed.  Events to one tab are kept as one: a
\* listener reads the storage as it is when it runs.
StorageEventsAfter(tab, st) ==
    IF st # stored
    THEN storageEvents \cup {h[1] : h \in {m \in hookMounted : m[1] # tab}}
    ELSE storageEvents

\* the ids of a list of items
Ids(list) == {list[i].id : i \in 1 .. Len(list)}

\* watchlist.some(item => item.id === id), currentList.find(i => i.id === id)
HasId(list, id) == \E i \in 1 .. Len(list) : list[i].id = id

\* addToWatchlist without its test for the id
AddResultAlways(list, show, t, hours) ==
    [changed |-> TRUE, list |-> <<WatchlistItem(show, t, hours)>> \o list]

\* addToWatchlist on the instance's list: whether it updates, and the list
AddResult(list, show, t, hours) ==
    IF ~HasId(list, show.id)
    THEN [changed |-> TRUE, list |-> <<WatchlistItem(show, t, hours)>> \o list]
    ELSE [changed |-> FALSE, list |-> list]

\* watchlist.filter(item => item.id !== id)
RemoveResult(list, id) ==
    LET Keep(item) == item.id # id IN SelectSeq(list, Keep)

\* the first render of a component that calls useWatchlist, and its effect:
\* useState([]), loadWatchlist(), the two listeners
MountHook(h) ==
    /\ h \notin hookMounted
    /\ hookMounted' = hookMounted \cup {h}
    /\ watchlist' = [watchlist EXCEPT ![h] = LoadWatchlist(<<>>, stored)]
    /\ UNCHANGED <<stored, storageEvents, now, notified, kept>>
    /\ UNCHANGED <<appVars, obsVars, pureVars, cardVars>>

\* the component unmounts: the cleanup removes the listeners
UnmountHook(h) ==
    /\ h \in hookMounted
    /\ hookMounted' = hookMounted \ {h}
    /\ watchlist' = [watchlist EXCEPT ![h] = <<>>]
    /\ storageEvents' =
          storageEvents \cap {m[1] : m \in hookMounted \ {h}}
    /\ UNCHANGED <<stored, now, notified, kept>>
    /\ UNCHANGED <<appVars, obsVars, pureVars, cardVars>>

\* addToWatchlist(show, bingeHours) of instance h
AddToWatchlist(h, show, hours) ==
    /\ h \in hookMounted
    /\ LET r == AddResult(watchlist[h], show, now, hours)
           st == <<JsonStringify(r.list)>>
       IN  IF r.changed
           THEN /\ stored' = st
                /\ watchlist' =
                      Dispatch(h[1], [watchlist EXCEPT ![h] = r.list], st)
                /\ storageEvents' = StorageEventsAfter(h[1], st)
                /\ notified' = TRUE
                /\ kept' = kept \cup {show.id}
           ELSE /\ notified' = FALSE
                /\ UNCHANGED <<stored, watchlist, storageEvents, kept>>
    /\ UNCHANGED <<hookMounted, now>>
    /\ UNCHANGED <<appVars, obsVars, pureVars, cardVars>>

\* removeFromWatchlist(id) of instance h
RemoveFromWatchlist(h, id) ==
    /\ h \in hookMounted
    /\ LET updatedList == RemoveResult(watchlist[h], id)
           st == <<JsonStringify(updatedList)>>
       IN  /\ stored' = st
           /\ watchlist' =
                 Dispatch(h[1], [watchlist EXCEPT ![h] = updatedList], st)
           /\ storageEvents' = StorageEventsAfter(h[1], st)
    /\ notified' = TRUE
    /\ kept' = kept \ {id}
    /\ UNCHANGED <<hookMounted, now>>
    /\ UNCHANGED <<appVars, obsVars, pureVars, cardVars>>

\* the 'storage' event of another tab's write is delivered to a tab
DeliverStorage(tab) ==
    /\ tab \in storageEvents
    /\ storageEvents' = storageEvents \ {tab}
    /\ watchlist' = Dispatch(tab, watchlist, stored)
    /\ UNCHANGED <<stored, hookMounted, now, notified, kept>>
    /\ UNCHANGED <<appVars, obsVars, pureVars, cardVars>>

\* the value is set or removed from outside the hook (another document of
\* the origin, an earlier version of the page, the browser's tools): every
\* tab with a listener gets a 'storage' event
ForeignWrite(st) ==
    /\ st # stored
    /\ stored' = st
    /\ storageEvents' = storageEvents \cup {h[1] : h \in hookMounted}
    /\ UNCHANGED <<watchlist, hookMounted, now, notified, kept>>
    /\ UNCHANGED <<appVars, obsVars, pureVars, cardVars>>

\* the render of the component of instance h throws a TypeError: App
\* spreads the watchlist and calls watchlist.reduce, a card calls
\* watchlist.some, and the object {} has neither an iterator nor these
RenderThrows(h) == h \in hookMounted /\ watchlist[h] = EmptyObject

\* a millisecond passes
ClockAdvances ==
    /\ now < MaxClock
    /\ now' = now + 1
    /\ UNCHANGED <<stored, watchlist, hookMounted, storageEvents, notified,
                   kept>>
    /\ UNCHANGED <<appVars, obsVars, pureVars, cardVars>>

\* no instance is mounted yet; the storage holds st
InitHooks(st) ==
    /\ stored = st
    /\ watchlist = [h \in Hooks |-> <<>>]
    /\ hookMounted = {}
    /\ storageEvents = {}
    /\ now = 1
    /\ notified = FALSE
    /\ kept = IF st = <<>> THEN {}
              ELSE {st[1][i].id : i \in 1 .. Len(st[1])}

\* the hook is left out: nothing was ever stored
IdleHooks == InitHooks(<<>>)

(***************************************************************************)
(* sortedWatchlist (src/App.tsx:169-212).  A title and a search text are   *)
(* sequences of characters.  An instant is written in days since the       *)
(* epoch, which keeps the order and the zero of getTime().                 *)
(* Array.prototype.sort is carried out as the engines carry it out on a    *)
(* short array: V8 finds the run the array starts with, reverses it when   *)
(* it descends, and inserts the rest by binary search; SpiderMonkey        *)
(* inserts each element by a linear search from the right.                 *)
(***************************************************************************)
LowerCaseTable == {<<"A", "a">>, <<"B", "b">>, <<"C", "c">>}

\* String.prototype.toLowerCase
ToLowerCase(text) ==
    [i \in 1 .. Len(text) |->
        IF \E p \in LowerCaseTable : p[1] = text[i]
        THEN (CHOOSE p \in LowerCaseTable : p[1] = text[i])[2]
        ELSE text[i]]

\* String.prototype.includes
StringIncludes(text, q) ==
    \E k \in 0 .. Len(text) - Len(q) : SubSeq(text, k + 1, k + Len(q)) = q

\* the filter callback comparing the title as it is written
MatchesQueryCaseSensitive(item, q) == StringIncludes(item.name, q)

\* the filter callback: item.name.toLowerCase().includes(q)
MatchesQuery(item, q) == StringIncludes(ToLowerCase(item.name), q)

\* the date texts of the model: text, place in lexical order, whether
\* new Date(text) is invalid, and its getTime() in days
DateTable ==
    { [text |-> "",           rank |-> 0, nan |-> TRUE,  days |-> 0],
      [text |-> "1965-09-15", rank |-> 1, nan |-> FALSE, days |-> 0 - 1569],
      [text |-> "1970-01-01", rank |-> 2, nan |-> FALSE, days |-> 0],
      [text |-> "2020-05-01", rank |-> 3, nan |-> FALSE, days |-> 18383] }

DateOf(text) == CHOOSE d \in DateTable : d.text = text

\* new Date(text).getTime() || 0
TimeOrZero(text) ==
    LET d == DateOf(text) IN IF d.nan \/ d.days = 0 THEN 0 ELSE d.days

\* valA / valB of the comparator; an unknown field leaves them undefined,
\* which compares like equal values
SortValue(item, field) ==
    CASE field = "addedAt"        -> item.addedAt
      [] field = "bingeHours"     -> item.bingeHours
      [] field = "first_air_date" -> TimeOrZero(item.first_air_date)
      [] field = "vote_average"   -> item.vote_average
      [] field = "vote_count"     -> item.vote_count
      [] field = "popularity"     -> item.popularity
      [] OTHER                    -> 0

\* the comparator taking every direction for asc
CompareAscending(a, b, field, direction) ==
    IF SortValue(a, field) > SortValue(b, field) THEN 1 ELSE 0 - 1

\* the comparator of list.sort
Compare(a, b, field, direction) ==
    LET valA == SortValue(a, field)
        valB == SortValue(b, field)
    IN  IF direction = "asc"
        THEN IF valA > valB THEN 1 ELSE 0 - 1
        ELSE IF valA < valB THEN 1 ELSE 0 - 1

RECURSIVE CountRun(_, _, _, _, _)
\* V8, CountAndMakeRun: the length of the run the array starts with; idx is
\* the number of elements already in the run
CountRun(a, idx, isDescending, field, direction) ==
    IF idx >= Len(a) THEN idx
    ELSE LET order == Compare(a[idx + 1], a[idx], field, direction)
         IN  IF isDescending
             THEN IF order >= 0 THEN idx
                  ELSE CountRun(a, idx + 1, isDescending, field, direction)
             ELSE IF order < 0 THEN idx
                  ELSE CountRun(a, idx + 1, isDescending, field, direction)

\* V8, CountAndMakeRun on an array of two or more: a descending run is
\* reversed in place
CountAndMakeRun(a, field, direction) ==
    LET isDescending == Compare(a[2], a[1], field, direction) < 0
        runLength    == CountRun(a, 2, isDescending, field, direction)
    IN  [length |-> runLength,
         array  |-> IF isDescending
                    THEN Reverse(SubSeq(a, 1, runLength))
                           \o SubSeq(a, runLength + 1, Len(a))
                    ELSE a]

RECURSIVE BinarySearchLeft(_, _, _, _, _, _)
\* V8, BinaryInsertionSort: where the pivot goes among the first elements
\* (left and right count elements from 0)
BinarySearchLeft(a, pivot, left, right, field, direction) ==
    IF left < right
    THEN LET mid   == left + ((right - left) \div 2)
             order == Compare(pivot, a[mid + 1], field, direction)
         IN  IF order < 0
             THEN BinarySearchLeft(a, pivot, left, mid, field, direction)
             ELSE BinarySearchLeft(a, pivot, mid + 1, right, field, direction)
    ELSE left

RECURSIVE BinaryInsertionSort(_, _, _, _)
\* V8, BinaryInsertionSort: the first start elements are in order
BinaryInsertionSort(a, start, field, direction) ==
    IF start >= Len(a) THEN a
    ELSE LET pivot == a[start + 1]
             left  == BinarySearchLeft(a, pivot, 0, start, field, direction)
         IN  BinaryInsertionSort(
                 SubSeq(a, 1, left) \o <<pivot>> \o SubSeq(a, left + 1, start)
                    \o SubSeq(a, start + 2, Len(a)),
                 start + 1, field, direction)

RECURSIVE LinearSearchRight(_, _, _, _, _)
\* SpiderMonkey, InsertionSort: the last of the first j elements that does
\* not compare above the item
LinearSearchRight(a, item, j, field, direction) ==
    IF j < 1 THEN 0
    ELSE IF Compare(a[j], item, field, direction) <= 0 THEN j
    ELSE LinearSearchRight(a, item, j - 1, field, direction)

RECURSIVE InsertionSort(_, _, _, _)
\* SpiderMonkey, InsertionSort: the elements before the i-th are in order
InsertionSort(a, i, field, direction) ==
    IF i > Len(a) THEN a
    ELSE LET item == a[i]
             j    == LinearSearchRight(a, item, i - 1, field, direction)
         IN  InsertionSort(
                 SubSeq(a, 1, j) \o <<item>> \o SubSeq(a, j + 1, i - 1)
                    \o SubSeq(a, i + 1, Len(a)),
                 i + 1, field, direction)

Engines == {"V8", "SpiderMonkey"}

\* list.sort(comparator) in an engine
ArraySort(a, field, direction, engine) ==
    IF Len(a) < 2 THEN a
    ELSE IF engine = "V8"
    THEN LET run == CountAndMakeRun(a, field, direction)
         IN  BinaryInsertionSort(run.array, run.length, field, direction)
    ELSE InsertionSort(a, 2, field, direction)

\* the sort keys of the watchlist and their split('.')
WatchlistSortKeys ==
    { <<"addedAt.asc", "addedAt", "asc">>,
      <<"addedAt.desc", "addedAt", "desc">>,
      <<"bingeHours.asc", "bingeHours", "asc">>,
      <<"bingeHours.desc", "bingeHours", "desc">>,
      <<"first_air_date.asc", "first_air_date", "asc">>,
      <<"first_air_date.desc", "first_air_date", "desc">>,
      <<"vote_average.asc", "vote_average", "asc">>,
      <<"vote_average.desc", "vote_average", "desc">>,
      <<"vote_count.asc", "vote_count", "asc">>,
      <<"vote_count.desc", "vote_count", "desc">>,
      <<"popularity.asc", "popularity", "asc">>,
      <<"popularity.desc", "popularity", "desc">> }

\* watchlistSortBy.split('.')
Split(key) ==
    LET k == CHOOSE k \in WatchlistSortKeys : k[1] = key IN <<k[2], k[3]>>

\* the useMemo callback of sortedWatchlist: the list it returns, and the
\* watchlist array it was given as the callback leaves it
SortedWatchlistRun(list0, sortKey, query, engine) ==
    LET q         == ToLowerCase(query)
        Keep(item) == MatchesQuery(item, q)
        list      == IF query # <<>> THEN SelectSeq(list0, Keep) ELSE list0
        parts     == Split(sortKey)
    IN  [watchlist |-> list0,
         list      |-> ArraySort(list, parts[1], parts[2], engine)]

\* onSelect of the watchlist SortSelector, and the render after it
SetWatchlistSortBy(val) ==
    /\ mounted /\ apiKey # "" /\ viewMode = "watchlist"
    /\ <<"A", "App">> \in hookMounted
    /\ watchlistSortBy' = val
    /\ \E engine \in Engines :
          watchlist' =
            [watchlist EXCEPT ![<<"A", "App">>] =
                SortedWatchlistRun(watchlist[<<"A", "App">>], val,
                                   debouncedSearchQuery, engine).watchlist]
    /\ UNCHANGED <<mounted, localKey, apiKey, viewMode, page, loading, error,
                   filterVars, rawVars, commitVars, resultVars,
                   searchTimer, filterTimer, inflight, requested>>
    /\ UNCHANGED <<stored, hookMounted, storageEvents, now, notified, kept>>
    /\ UNCHANGED <<obsVars, pureVars, cardVars>>

(***************************************************************************)
(* Inputs of the specifications.                                           *)
(***************************************************************************)
Keys        == {"k1"}
SearchTexts == {<<>>, <<"a", " ", "b">>}
VoteTexts   == {"100", "200"}
RatingTexts == {"6", "3.7"}
YearRanges  == {<<MIN_YEAR_LIMIT, MAX_YEAR_LIMIT>>, <<2000, MAX_YEAR_LIMIT>>}
Languages   == {"en", ""}
SortKeys    == {"first_air_date.desc", "popularity.desc"}

\* records of a response: votes on both sides of 99, ratings on both sides
\* of 5.94, and a record rated 3.663
Show1 == [id |-> 1, vote_count |-> 99, vote_average |-> 5940]
Show2 == [id |-> 2, vote_count |-> 98, vote_average |-> 5940]
Show3 == [id |-> 3, vote_count |-> 99, vote_average |-> 5930]
Show4 == [id |-> 4, vote_count |-> 250, vote_average |-> 3663]
Shows == {Show1, Show2, Show3, Show4}

\* the result lists of a response
Responses == UNION {[1 .. n -> Shows] : n \in 0 .. MaxResults}

\* the committed thresholds of a call (votes, rating), in milli form
Thresholds ==
    { <<100000, 6000>>, <<0, 0>>, <<200000, 7000>>, <<100000, 3700>>,
      <<1500, 6000>>, <<0 - 5000, 6000>> }

\* the optional arguments of a call: (language, person, sort, minYear)
Optionals ==
    { <<"", "", "", 0>>, <<"en", "7", "popularity.desc", MIN_YEAR_LIMIT>>,
      <<"en", "", "first_air_date.desc", 2000>> }

\* the arguments of the calls of discoverShows that are examined
Calls ==
    { [key |-> "k1", page |-> pg,
       options |->
         [withGenres           |-> [i \in 1 .. n |-> i],
          withoutGenres        |-> [i \in 1 .. m |-> MaxGenre + i],
          withOriginalLanguage |-> opt[1],
          withPeople           |-> opt[2],
          minVotes             |-> th[1],
          minRating            |-> th[2],
          minYear              |-> opt[4],
          maxYear              |-> MAX_YEAR_LIMIT,
          genreMode            |-> mode,
          sortBy               |-> opt[3]]] :
      pg \in {1, MaxPages}, n \in 0 .. MaxGenre, m \in 0 .. MaxGenre,
      opt \in Optionals, th \in Thresholds, mode \in {"OR", "AND"} }

\* texts of the numeric inputs at a commit: empty, not a number, below
\* the input's min, fractional, above the input's max
CommitVoteTexts   == {"", "abc", "-5", "1.5"}
CommitRatingTexts == {"", "abc", "11"}

(***************************************************************************)
(* ShowCard: one card of tab A with its instance of the hook.  A detail    *)
(* field holds 0 for null, or the id of the show whose details it was      *)
(* taken from; bingeHours holds 0 for null, or the hours; a run of the     *)
(* details effect is a record of the id its closure holds, its isMounted   *)
(* flag and its position in fetchDetails.                                  *)
(***************************************************************************)
CardHook == <<"A", "ShowCard">>
CardShows == {Show1, Show2}

\* no card is rendered
NoCard == [mounted |-> FALSE]
IdleCard == card = NoCard /\ detailCalls = <<>>

\* the useState initial values of the first render
NewCard(show) ==
    [mounted |-> TRUE, show |-> show, currentShow |-> show,
     status |-> 0, bingeHours |-> 0, imdbId |-> 0, cast |-> 0,
     trailerUrl |-> 0, recommendations |-> <<>>, loadingDetails |-> TRUE]

\* what the upstream holds for a show: its recommendations (after the
\* poster filter and slice) and the hours its runtimes amount to
Recommended(id) == IF id = Show1.id THEN <<Show2>> ELSE <<Show1>>
DetailHours(id) == IF id = Show1.id THEN 12 ELSE 7

\* the parts of a details response the card tests for: a complete one, one
\* whose videos hold no YouTube trailer, one with none of the optional parts
FullDetails ==
    [status |-> TRUE, imdb |-> TRUE, credits |-> TRUE, videos |-> "trailer",
     recommendations |-> TRUE, runtime |-> TRUE]
NoTrailerDetails == [FullDetails EXCEPT !.videos = "none"]
BareDetails ==
    [status |-> FALSE, imdb |-> FALSE, credits |-> FALSE, videos |-> "absent",
     recommendations |-> FALSE, runtime |-> FALSE]
DetailShapes == {FullDetails, NoTrailerDetails, BareDetails}

\* the setters of fetchDetails for the details d of show id
ApplyDetails(c, id, d) ==
    [c EXCEPT
       !.status = IF d.status THEN id ELSE @,
       !.imdbId = IF d.imdb THEN id ELSE @,
       !.cast = IF d.credits THEN id ELSE @,
       !.trailerUrl = IF d.videos = "absent" THEN @
                      ELSE IF d.videos = "trailer" THEN id ELSE 0,
       !.recommendations = IF d.recommendations THEN Recommended(id)
                           ELSE <<>>,
       !.bingeHours = IF d.runtime THEN DetailHours(id) ELSE 0]

\* the cleanup of the details effect: isMounted = false in the closure of
\* every earlier run
Cancelled(calls) ==
    [i \in 1 .. Len(calls) |-> [calls[i] EXCEPT !.isMounted = FALSE]]

\* a run of the details effect for show id: isMounted = true, fetchDetails
\* called and waiting for its random delay
EffectRuns(calls, id) ==
    Append(Cancelled(calls), [id |-> id, isMounted |-> TRUE, pc |-> "delay"])

\* the card mounts: the first render, the hook's effect, setCurrentShow(show)
\* and the first run of the details effect
MountCard(show) ==
    /\ ~card.mounted
    /\ CardHook \notin hookMounted
    /\ Len(detailCalls) < MaxDetailCalls
    /\ card' = NewCard(show)
    /\ detailCalls' = EffectRuns(detailCalls, show.id)
    /\ hookMounted' = hookMounted \cup {CardHook}
    /\ watchlist' =
          [watchlist EXCEPT ![CardHook] = LoadWatchlist(<<>>, stored)]
    /\ UNCHANGED <<stored, storageEvents, now, notified, kept>>
    /\ UNCHANGED <<appVars, obsVars, pureVars>>

\* the card unmounts: the cleanups of the details effect and of the hook
UnmountCard ==
    /\ card.mounted
    /\ card' = NoCard
    /\ detailCalls' = Cancelled(detailCalls)
    /\ hookMounted' = hookMounted \ {CardHook}
    /\ watchlist' = [watchlist EXCEPT ![CardHook] = <<>>]
    /\ storageEvents' =
          storageEvents \cap {m[1] : m \in hookMounted \ {CardHook}}
    /\ UNCHANGED <<stored, now, notified, kept>>
    /\ UNCHANGED <<appVars, obsVars, pureVars>>

\* the parent renders the card with a new object for the same key:
\* setCurrentShow(show), and the details effect runs again if the id differs
PropChanges ==
    /\ card.mounted
    /\ IF card.currentShow.id # card.show.id
       THEN /\ Len(detailCalls) < MaxDetailCalls
            /\ card' = [card EXCEPT !.currentShow = card.show,
                                    !.loadingDetails = TRUE]
            /\ detailCalls' = EffectRuns(detailCalls, card.show.id)
       ELSE UNCHANGED cardVars
    /\ UNCHANGED <<appVars, obsVars, pureVars, hookVars>>

\* handleRecommendationClick(rec) on a recommendation the card renders; the
\* details effect runs again only if currentShow.id has changed
HandleRecommendationClick(rec) ==
    /\ card.mounted
    /\ ~card.loadingDetails
    /\ \E i \in 1 .. Len(card.recommendations) : card.recommendations[i] = rec
    /\ card' = [card EXCEPT !.loadingDetails = TRUE, !.currentShow = rec]
    /\ IF rec.id # card.currentShow.id
       THEN /\ Len(detailCalls) < MaxDetailCalls
            /\ detailCalls' = EffectRuns(detailCalls, rec.id)
       ELSE UNCHANGED detailCalls
    /\ UNCHANGED <<appVars, obsVars, pureVars, hookVars>>

\* the delay of fetchDetails has elapsed: if (!isMounted) return, else the
\* request of getShowDetails is sent
DelayElapses(i) ==
    /\ i \in 1 .. Len(detailCalls)
    /\ detailCalls[i].pc = "delay"
    /\ detailCalls' =
          IF detailCalls[i].isMounted
          THEN [detailCalls EXCEPT ![i].pc = "fetch"]
          ELSE RemoveAt(detailCalls, i)
    /\ UNCHANGED <<card, appVars, obsVars, pureVars, hookVars>>

\* fetchDetails without the isMounted test before its setters: the details
\* are stored on whatever the card displays when they arrive
DetailsArriveUnguarded(i, d) ==
    /\ i \in 1 .. Len(detailCalls)
    /\ detailCalls[i].pc = "fetch"
    /\ card' =
          IF card.mounted
          THEN [ApplyDetails(card, detailCalls[i].id, d)
                  EXCEPT !.loadingDetails =
                            IF detailCalls[i].isMounted THEN FALSE ELSE @]
          ELSE card
    /\ detailCalls' = RemoveAt(detailCalls, i)
    /\ UNCHANGED <<appVars, obsVars, pureVars, hookVars>>

\* getShowDetails resolves with details d: the setters if isMounted, and
\* the finally block
DetailsArrive(i, d) ==
    /\ i \in 1 .. Len(detailCalls)
    /\ detailCalls[i].pc = "fetch"
    /\ card' =
          IF detailCalls[i].isMounted
          THEN [ApplyDetails(card, detailCalls[i].id, d)
                  EXCEPT !.loadingDetails = FALSE]
          ELSE card
    /\ detailCalls' = RemoveAt(detailCalls, i)
    /\ UNCHANGED <<appVars, obsVars, pureVars, hookVars>>

\* getShowDetails resolves with null (the response is not ok) or rejects:
\* no setter but the one of the finally block
DetailsFail(i) ==
    /\ i \in 1 .. Len(detailCalls)
    /\ detailCalls[i].pc = "fetch"
    /\ card' =
          IF detailCalls[i].isMounted
          THEN [card EXCEPT !.loadingDetails = FALSE]
          ELSE card
    /\ detailCalls' = RemoveAt(detailCalls, i)
    /\ UNCHANGED <<appVars, obsVars, pureVars, hookVars>>

\* toggleWatchlist: the bookmark button of the card
ToggleWatchlist ==
    /\ card.mounted
    /\ IF HasId(watchlist[CardHook], card.currentShow.id)
       THEN RemoveFromWatchlist(CardHook, card.currentShow.id)
       ELSE AddToWatchlist(CardHook, card.currentShow, card.bingeHours)

Init == InitApp /\ IdlePure /\ IdleHooks /\ IdleCard

\* the hours a card passes to addToWatchlist: the card of the first show
\* has computed twelve, the card of any other show none yet
BingeHours(show) == IF show.id = 1 THEN 12 ELSE 0

\* shows of a watchlist: titles in both cases; a date before the epoch, no
\* date, a date after the epoch and the epoch itself; on every field two
\* items with the same value
TV1 == [id |-> 1, name |-> <<"A", "b">>, first_air_date |-> "1965-09-15",
        vote_average |-> 7000, vote_count |-> 100, popularity |-> 5000]
TV2 == [id |-> 2, name |-> <<"b", "a">>, first_air_date |-> "",
        vote_average |-> 7000, vote_count |-> 200, popularity |-> 5000]
TV3 == [id |-> 3, name |-> <<"B", " ", "A">>, first_air_date |-> "2020-05-01",
        vote_average |-> 8000, vote_count |-> 100, popularity |-> 6000]
TV4 == [id |-> 4, name |-> <<"c">>, first_air_date |-> "1970-01-01",
        vote_average |-> 6000, vote_count |-> 300, popularity |-> 7000]

\* the items they were added as: (show, addedAt, bingeHours)
LibraryItems ==
    { WatchlistItem(TV1, 1, 12), WatchlistItem(TV2, 2, 0),
      WatchlistItem(TV3, 2, 12), WatchlistItem(TV4, 3, 5) }

\* the watchlists: the lists of up to MaxItems different items
LibraryWatchlists ==
    { list \in UNION {[1 .. n -> LibraryItems] : n \in 0 .. MaxItems} :
        \A i, j \in 1 .. Len(list) : list[i] = list[j] => i = j }

\* the committed search texts
LibraryQueries == {<<>>, <<"a">>, <<"B">>, <<"b", "a">>}

\* the watchlist a previous session left in the storage: none, or one show
StoredBefore == {<<>>, <<JsonStringify(<<WatchlistItem(Show1, 0, 12)>>)>>}

(***************************************************************************)
(* discoverShows as a function of its arguments and of the response.       *)
(***************************************************************************)
InitDiscover ==
    /\ InitApp
    /\ IdleHooks
    /\ IdleCard
    /\ dpc = "called"
    /\ call \in Calls
    /\ sent = NoRequest
    /\ upstream = <<>>
    /\ returned = <<>>

NextDiscover ==
    \/ DiscoverShows
    \/ \E results \in Responses : DiscoverResolves(results)
    \/ DiscoverRejectsKey
    \/ DiscoverFails

SpecDiscover == InitDiscover /\ [][NextDiscover]_vars

(***************************************************************************)
(* The genre filter: the credential, the three genre handlers, the network. *)
(***************************************************************************)
Credential ==
    \/ \E sessionKey \in Keys \cup {""} : Mount(sessionKey)
    \/ \E key \in Keys : HandleSetKey(key)
    \/ ResetKey

NextGenre ==
    \/ Credential
    \/ \E id \in 1 .. MaxGenre : HandleGenreToggle(id)
    \/ ClearGenres
    \/ ToggleGenreMode
    \/ \E i \in 1 .. MaxInflight :
           \/ FetchSucceeds(i, <<Show1>>, 1)
           \/ FetchUnauthorized(i)
           \/ FetchFails(i)

SpecGenre == Init /\ [][NextGenre]_vars

(***************************************************************************)
(* The debounce layer: the raw inputs, the two timers, the view switch,    *)
(* the credential and the network.  Responses arrive within the tick in    *)
(* which their request was made.                                           *)
(***************************************************************************)
Next ==
    \/ \E sessionKey \in Keys \cup {""} : Mount(sessionKey)
    \/ \E key \in Keys : HandleSetKey(key)
    \/ \E text \in SearchTexts : SetSearchQuery(text)
    \/ SearchDebounceFires
    \/ \E text \in VoteTexts : SetMinVotes(text)
    \/ \E text \in RatingTexts : SetMinRating(text)
    \/ \E range \in YearRanges : SetYearRange(range)
    \/ FilterDebounceFires
    \/ ResetNumericFilters
    \/ \E mode \in {"discover", "watchlist"} : SetViewMode(mode)
    \/ (inflight = <<>> /\ Tick)
    \/ \E i \in 1 .. MaxInflight : FetchSucceeds(i, <<Show1>>, MaxPages)

Spec == Init /\ [][Next]_vars

(***************************************************************************)
(* The numeric commit: the texts of the two numeric inputs, the year       *)
(* range, the numeric debounce timer and the network.                      *)
(***************************************************************************)
NextCommit ==
    \/ \E sessionKey \in Keys \cup {""} : Mount(sessionKey)
    \/ \E key \in Keys : HandleSetKey(key)
    \/ \E text \in CommitVoteTexts : SetMinVotes(text)
    \/ \E text \in CommitRatingTexts : SetMinRating(text)
    \/ SetYearRange(<<2000, MAX_YEAR_LIMIT>>)
    \/ SearchDebounceFires
    \/ FilterDebounceFires
    \/ (inflight = <<>> /\ Tick)
    \/ \E i \in 1 .. MaxInflight :
           \/ FetchSucceeds(i, <<Show1>>, 1)
           \/ FetchFails(i)

SpecCommit == Init /\ [][NextCommit]_vars

\* the records the upstream holds: 150 and 250 votes, both rated 7
Show5 == [id |-> 5, vote_count |-> 150, vote_average |-> 7000]
Show6 == [id |-> 6, vote_count |-> 250, vote_average |-> 7000]
Catalogue == <<Show5, Show6>>

\* data.results of the response to the request of a pending call: the
\* upstream applies vote_count.gte of a discovery query, and nothing of
\* the filters to a search
UpstreamResults(pending) ==
    LET Enough(show) == show.vote_count >= TargetVotes(pending.minVotes)
    IN  IF pending.search THEN Catalogue ELSE SelectSeq(Catalogue, Enough)

\* data.total_pages of that response: one record a page
UpstreamTotalPages(pending) == Len(UpstreamResults(pending))

\* overlapping requests: the committed votes threshold and search text
\* change while earlier requests are pending, and the responses arrive in
\* any order, as 200, as 401 or as another failure
NextRace ==
    \/ \E sessionKey \in Keys \cup {""} : Mount(sessionKey)
    \/ \E key \in Keys : HandleSetKey(key)
    \/ \E text \in SearchTexts : SetSearchQuery(text)
    \/ \E text \in VoteTexts : SetMinVotes(text)
    \/ SearchDebounceFires
    \/ FilterDebounceFires
    \/ Retry
    \/ Tick
    \/ \E i \in 1 .. MaxInflight :
           \/ FetchSucceeds(i, UpstreamResults(inflight[i]),
                            UpstreamTotalPages(inflight[i]))
           \/ FetchUnauthorized(i)
           \/ FetchFails(i)

SpecRace == Init /\ [][NextRace]_vars

\* the result lists of a page: both records pass the reconciler, one of
\* two passes, none passes
PageResponses ==
    { <<Show5, Show6>>, <<Show1>>, <<Show1, Show2>>, <<Show5, Show3>>,
      <<Show2>>, <<Show3, Show4>> }

\* pagination over responses of which the reconciler keeps all, some or no
\* records
NextPaging ==
    \/ \E sessionKey \in Keys \cup {""} : Mount(sessionKey)
    \/ \E key \in Keys : HandleSetKey(key)
    \/ SearchDebounceFires
    \/ FilterDebounceFires
    \/ Tick
    \/ PreviousPage
    \/ NextPage
    \/ Retry
    \/ \E i \in 1 .. MaxInflight :
           \/ \E results \in PageResponses, total \in 1 .. MaxPages :
                 FetchSucceeds(i, results, total)
           \/ FetchFails(i)

SpecPaging == Init /\ [][NextPaging]_vars

\* mount, view switches and pagination with no input ever changed: every
\* debounce timer fires with raw values equal to the committed ones
NextSwitch ==
    \/ \E sessionKey \in Keys \cup {""} : Mount(sessionKey)
    \/ \E key \in Keys : HandleSetKey(key)
    \/ \E mode \in {"discover", "watchlist"} : SetViewMode(mode)
    \/ SearchDebounceFires
    \/ FilterDebounceFires
    \/ Tick
    \/ PreviousPage
    \/ NextPage
    \/ \E i \in 1 .. MaxInflight : FetchSucceeds(i, <<Show1>>, MaxPages)

SpecSwitch == Init /\ [][NextSwitch]_vars

(***************************************************************************)
(* The watchlist of two tabs: the instances of the hook, the shared        *)
(* storage, the storage events and the clock.                              *)
(***************************************************************************)
InitWatchlist ==
    /\ InitApp
    /\ IdlePure
    /\ IdleCard
    /\ \E st \in StoredBefore : InitHooks(st)

NextWatchlist ==
    \/ \E h \in Hooks : MountHook(h)
    \/ \E h \in Hooks : UnmountHook(h)
    \/ \E tab \in Tabs, show \in {Show1, Show2} :
          AddToWatchlist(<<tab, "ShowCard">>, show, BingeHours(show))
    \/ \E tab \in Tabs, id \in {Show1.id, Show2.id} :
          RemoveFromWatchlist(<<tab, "ShowCard">>, id)
    \/ \E tab \in Tabs : DeliverStorage(tab)
    \/ ClockAdvances

SpecWatchlist == InitWatchlist /\ [][NextWatchlist]_vars

\* the values of the storage examined: none, the text of a list of one
\* item, a text that is not JSON, the text of an object
StoreValues ==
    { <<>>, <<JsonStringify(<<WatchlistItem(Show1, 0, 12)>>)>>,
      <<SyntaxErrorText>>, <<ObjectText>> }

\* readers of a storage that holds any of these values and is changed
\* from outside
InitStore ==
    /\ InitApp
    /\ IdlePure
    /\ IdleCard
    /\ stored \in StoreValues
    /\ watchlist = [h \in Hooks |-> <<>>]
    /\ hookMounted = {}
    /\ storageEvents = {}
    /\ now = 1
    /\ notified = FALSE
    /\ kept = {}

NextStore ==
    \/ \E h \in Hooks : MountHook(h)
    \/ \E h \in Hooks : UnmountHook(h)
    \/ \E st \in StoreValues : ForeignWrite(st)
    \/ \E tab \in Tabs : DeliverStorage(tab)

SpecStore == InitStore /\ [][NextStore]_vars

(***************************************************************************)
(* One card: its mounts, the renders of its parent, drill-downs, the       *)
(* outcomes of its detail requests and the bookmark button.                *)
(***************************************************************************)
NextCard ==
    \/ \E show \in CardShows : MountCard(show)
    \/ UnmountCard
    \/ PropChanges
    \/ \E rec \in CardShows : HandleRecommendationClick(rec)
    \/ \E i \in 1 .. MaxDetailCalls : DelayElapses(i)
    \/ \E i \in 1 .. MaxDetailCalls, d \in DetailShapes : DetailsArrive(i, d)
    \/ \E i \in 1 .. MaxDetailCalls : DetailsFail(i)
    \/ ToggleWatchlist

SpecCard == Init /\ [][NextCard]_vars

(***************************************************************************)
(* The library: App in watchlist mode, after the first page was loaded,    *)
(* with a watchlist read from the storage and a committed search text;     *)
(* the sort selector of the watchlist.                                     *)
(***************************************************************************)
InitLibrary ==
    /\ mounted = TRUE
    /\ localKey = "k1"
    /\ apiKey = "k1"
    /\ viewMode = "watchlist"
    /\ shows = <<Show1>>
    /\ page = 1
    /\ loading = FALSE
    /\ error = ""
    /\ totalPages = 1
    /\ searchQuery \in LibraryQueries
    /\ debouncedSearchQuery = searchQuery
    /\ includedGenres = <<>>
    /\ excludedGenres = <<>>
    /\ genreMode = "OR"
    /\ selectedPerson = <<>>
    /\ minVotes = String(FILTER_CONFIG.MIN_VOTES)
    /\ minRating = String(FILTER_CONFIG.MIN_RATING)
    /\ language = "en"
    /\ yearRange = <<MIN_YEAR_LIMIT, MAX_YEAR_LIMIT>>
    /\ sortBy = "first_air_date.desc"
    /\ watchlistSortBy = "addedAt.desc"
    /\ debouncedFilters = [minVotes |-> FILTER_CONFIG.MIN_VOTES,
                           minRating |-> FILTER_CONFIG.MIN_RATING,
                           minYear |-> MIN_YEAR_LIMIT,
                           maxYear |-> MAX_YEAR_LIMIT]
    /\ searchTimer = {}
    /\ filterTimer = {}
    /\ inflight = <<>>
    /\ requested =
          LoadDataRequest(apiKey, <<>>, page, includedGenres, excludedGenres,
                          language, selectedPerson, debouncedFilters,
                          genreMode, sortBy)
    /\ sinceSearch = SEARCH_DEBOUNCE
    /\ sinceFilter = FILTER_DEBOUNCE
    /\ burst = NoBurst
    /\ IdlePure
    /\ IdleCard
    /\ \E list \in LibraryWatchlists :
          /\ stored = <<JsonStringify(list)>>
          /\ watchlist = [h \in Hooks |-> IF h = <<"A", "App">> THEN list
                                          ELSE <<>>]
          /\ kept = Ids(list)
    /\ hookMounted = {<<"A", "App">>}
    /\ storageEvents = {}
    /\ now = MaxClock
    /\ notified = FALSE

NextLibrary ==
    \E key \in WatchlistSortKeys : SetWatchlistSortBy(key[1])

SpecLibrary == InitLibrary /\ [][NextLibrary]_vars

(***************************************************************************)
(* Filters and pages: every handler that changes a filter or the page, in  *)
(* discover mode.  Responses arrive within the tick of their request, and  *)
(* the user edits the search text or a numeric input only while no commit  *)
(* of the other kind is pending.                                           *)
(***************************************************************************)
NextPages ==
    \/ \E sessionKey \in Keys \cup {""} : Mount(sessionKey)
    \/ \E key \in Keys : HandleSetKey(key)
    \/ (filterTimer = {} /\ \E text \in SearchTexts : SetSearchQuery(text))
    \/ SearchDebounceFires
    \/ (searchTimer = {} /\ \E text \in VoteTexts : SetMinVotes(text))
    \/ FilterDebounceFires
    \/ (searchTimer = {} /\ ResetNumericFilters)
    \/ HandleGenreToggle(1)
    \/ ClearGenres
    \/ ToggleGenreMode
    \/ \E val \in SortKeys : SetSortBy(val)
    \/ \E code \in Languages : SetLanguage(code)
    \/ PreviousPage
    \/ NextPage
    \/ Retry
    \/ (inflight = <<>> /\ Tick)
    \/ \E i \in 1 .. MaxInflight :
           \/ FetchSucceeds(i, <<Show1>>, MaxPages)
           \/ FetchFails(i)

SpecPages == Init /\ [][NextPages]_vars

(***************************************************************************)
(* Properties of the genre filter (SpecGenre).                             *)
(***************************************************************************)
Members(list) == {list[i] : i \in 1 .. Len(list)}

NoDuplicates(list) ==
    \A i, j \in 1 .. Len(list) : list[i] = list[j] => i = j

\* C1: whatever genre toggles, clears and genre-mode toggles have happened,
\* no genre id is in both includedGenres and excludedGenres, and no id
\* occurs twice in either list.
C1_GenresDisjoint ==
    /\ Members(includedGenres) \cap Members(excludedGenres) = {}
    /\ NoDuplicates(includedGenres)
    /\ NoDuplicates(excludedGenres)

\* both lists hold an id (so an id was toggled twice), in ALL mode
C1_Witness ==
    /\ Len(includedGenres) > 0 /\ Len(excludedGenres) > 0
    /\ genreMode = "AND"

\* what a toggle of id does to the two lists, read off a step
CycleStep(id) ==
    LET wasInc == id \in Members(includedGenres)
        wasExc == id \in Members(excludedGenres)
        isInc  == id \in Members(includedGenres')
        isExc  == id \in Members(excludedGenres')
    IN  /\ (~wasInc /\ ~wasExc) => (isInc /\ ~isExc)
        /\ wasInc => (isExc /\ ~isInc)
        /\ (wasExc /\ ~wasInc) => (~isInc /\ ~isExc)
        /\ Members(includedGenres') \ {id} = Members(includedGenres) \ {id}
        /\ Members(excludedGenres') \ {id} = Members(excludedGenres) \ {id}

\* three toggles of id from the current lists give back their membership
TripleRestores(id) ==
    LET t1 == ToggleGenre(includedGenres, excludedGenres, id)
        t2 == ToggleGenre(t1.inc, t1.exc, id)
        t3 == ToggleGenre(t2.inc, t2.exc, id)
    IN  /\ Members(t3.inc) = Members(includedGenres)
        /\ Members(t3.exc) = Members(excludedGenres)

\* C2: a toggle of a genre id moves it unset -> included -> excluded ->
\* unset and leaves every other id where it was; three toggles of the same
\* id restore the membership of both lists.
C2_GenreCycle ==
    /\ [](\A id \in 1 .. MaxGenre : TripleRestores(id))
    /\ [][\A id \in 1 .. MaxGenre : HandleGenreToggle(id) => CycleStep(id)]_vars

\* genre 1 has reached excluded (two toggles) while genre 2 is included
C2_Witness ==
    /\ includedGenres = <<2>>
    /\ excludedGenres = <<1>>

(***************************************************************************)
(* Properties of discoverShows (SpecDiscover).  Thresholds are compared    *)
(* with exact integer arithmetic on the milli forms:                       *)
(*   V * 0.99 = V_milli * 99 / 100000,   R * 0.99 = R_milli * 990 / 10^6.  *)
(***************************************************************************)
\* floor(V * 0.99), exactly
ExactVotesThreshold(minVotesMilli) == (minVotesMilli * 99) \div 100000

\* the record's rating is strictly less than R * 0.99, exactly
ExactlyBelowRating(show, minRatingMilli) ==
    show.vote_average * 1000 < minRatingMilli * BUFFER_FACTOR

\* C3: the votes threshold sent upstream is floor(V * 0.99), and of the
\* records that pass the rating test the reconciler drops exactly those
\* with fewer votes than that same value.
C3_VotesThreshold ==
    LET T == ExactVotesThreshold(call.options.minVotes)
    IN  /\ dpc \notin {"idle", "called"} =>
             sent.params["vote_count.gte"] = ToString(T)
        /\ dpc = "returned" =>
             \A i \in 1 .. Len(upstream) :
                LET show == upstream[i]
                IN  /\ show.vote_count < T => show \notin Members(returned)
                    /\ (/\ show.vote_count >= T
                        /\ ~DblLess(Rating(show),
                                    TargetRating(call.options.minRating)))
                       => show \in Members(returned)

\* V = 100: of a record with 98 votes and one with 99, only the second is
\* returned
C3_Witness ==
    /\ dpc = "returned"
    /\ call.options.minVotes = 100000
    /\ sent.params["vote_count.gte"] = "99"
    /\ upstream = <<Show2, Show1>>
    /\ returned = <<Show1>>

\* C4: of the records with enough votes, the reconciler drops exactly those
\* rated strictly less than R * 0.99.
C4_RatingThresholdExact ==
    dpc = "returned" =>
       \A i \in 1 .. Len(upstream) :
          LET show == upstream[i]
          IN  show.vote_count >= ExactVotesThreshold(call.options.minVotes)
              => (show \in Members(returned)
                    <=> ~ExactlyBelowRating(show, call.options.minRating))

\* C4, the worked example: with R = 6.0 a record rated 5.94 is kept and one
\* rated 5.93 is dropped.
C4_Example ==
    (dpc = "returned" /\ call.options.minRating = 6000
       /\ call.options.minVotes = 100000)
    => /\ Show1 \in Members(upstream) => Show1 \in Members(returned)
       /\ Show3 \notin Members(returned)

C4_ExampleWitness ==
    /\ dpc = "returned"
    /\ call.options.minRating = 6000 /\ call.options.minVotes = 100000
    /\ upstream = <<Show1, Show3>>
    /\ returned = <<Show1>>

RECURSIVE IsSubsequence(_, _)
\* a can be had from b by deleting elements
IsSubsequence(a, b) ==
    IF a = <<>> THEN TRUE
    ELSE IF b = <<>> THEN FALSE
    ELSE IF Head(a) = Head(b) THEN IsSubsequence(Tail(a), Tail(b))
    ELSE IsSubsequence(a, Tail(b))

\* C5: the list discoverShows returns is a subsequence of the upstream
\* result list: records are only removed, never added, changed or reordered.
C5_OnlyRemoves ==
    dpc = "returned" => IsSubsequence(returned, upstream)

\* two different records were returned, both kept, in upstream order
C5_Witness ==
    /\ dpc = "returned"
    /\ upstream = <<Show4, Show1>>
    /\ returned = upstream

\* ids joined by sep: id, sep, id, ..., id
Interleave(ids, sep) ==
    [k \in 1 .. 2 * Len(ids) - 1 |->
        IF k % 2 = 1 THEN ToString(ids[(k + 1) \div 2]) ELSE sep]

\* C6: a non-empty included list is sent as with_genres joined with "|" in
\* OR (any) mode and with "," in AND (all) mode; a non-empty excluded list
\* is sent as without_genres joined with "," in both modes.
C6_GenreSeparators ==
    dpc \notin {"idle", "called"} =>
       LET o == call.options
           q == sent.params
       IN  /\ Len(o.withGenres) > 0 =>
                 /\ "with_genres" \in DOMAIN q
                 /\ o.genreMode = "OR" =>
                       q["with_genres"] = Interleave(o.withGenres, "|")
                 /\ o.genreMode = "AND" =>
                       q["with_genres"] = Interleave(o.withGenres, ",")
           /\ Len(o.withoutGenres) > 0 =>
                 /\ "without_genres" \in DOMAIN q
                 /\ q["without_genres"] = Interleave(o.withoutGenres, ",")

\* two included and two excluded genres in OR mode
C6_Witness ==
    /\ dpc = "fetching"
    /\ call.options.genreMode = "OR"
    /\ Len(call.options.withGenres) = 2
    /\ Len(call.options.withoutGenres) = 2
    /\ sent.params["with_genres"] = <<"1", "|", "2">>
    /\ sent.params["without_genres"] = <<"3", ",", "4">>

(***************************************************************************)
(* Properties of loadData's requests (SpecPages) and of the debounce layer *)
(* (Spec).                                                                 *)
(***************************************************************************)
\* the step calls loadData as far as its fetch
IssuesRequest == Len(inflight') > Len(inflight)

\* filter states to compare the current one with: every choice of genres,
\* of person and language, of thresholds and years, of genre mode and sort
OtherFilterStates ==
    { [inc |-> g[1], exc |-> g[2], person |-> pl[1], lang |-> pl[2],
       df |-> df, mode |-> ms[1], sort |-> ms[2]] :
      g  \in {<<<<>>, <<>>>>, <<<<2, 1>>, <<3>>>>},
      pl \in {<<<<>>, "">>, <<<<[id |-> 7, name |-> "p"]>>, "en">>},
      df \in {[minVotes |-> 0, minRating |-> 0,
               minYear |-> MIN_YEAR_LIMIT, maxYear |-> MAX_YEAR_LIMIT],
              [minVotes |-> 200000, minRating |-> 7000,
               minYear |-> 2000, maxYear |-> CURRENT_YEAR]},
      ms \in {<<"OR", "first_air_date.desc">>, <<"AND", "popularity.desc">>} }

\* the request loadData would issue now if the filters were those of f
RequestUnder(f) ==
    LoadDataRequest(apiKey, debouncedSearchQuery, page, f.inc, f.exc,
                    f.lang, f.person, f.df, f.mode, f.sort)

\* C7: when the committed search text is not empty, the request loadData
\* issues is the search request of (credential, text, page): it is not a
\* discovery request, and it is the same whatever the genres, genre mode,
\* person, numeric thresholds, years, language and sort are.
C7_SearchPrecedence ==
    /\ [](debouncedSearchQuery # <<>> =>
            \A f \in OtherFilterStates :
               RequestUnder(f)
                 = LoadDataRequest(apiKey, debouncedSearchQuery, page,
                                   includedGenres, excludedGenres, language,
                                   selectedPerson, debouncedFilters,
                                   genreMode, sortBy))
    /\ [][(IssuesRequest /\ debouncedSearchQuery' # <<>>) =>
             /\ requested'.path = "/search/tv"
             /\ requested' =
                   SearchRequest(apiKey', debouncedSearchQuery', page')]_vars

\* a search request for page 2 was issued while a genre is included, votes
\* are raised and the sort key is not the initial one
C7_Witness ==
    /\ requested = SearchRequest("k1", <<"a", " ", "b">>, 2)
    /\ Len(inflight) > 0
    /\ includedGenres # <<>>
    /\ debouncedFilters.minVotes = 200000
    /\ sortBy = "popularity.desc"

\* the parsed values of the raw numeric inputs
RawFilters ==
    [minVotes  |-> CommitNumber(minVotes),
     minRating |-> CommitNumber(minRating),
     minYear   |-> yearRange[1],
     maxYear   |-> yearRange[2]]

\* C8: a burst of N >= 1 updates of minVotes, minRating or yearRange, each
\* within the quiet window of the one before (discover mode, credential
\* set), fetches nothing and commits nothing while its timer is pending,
\* and ends with exactly one commit of debouncedFilters, of the values of
\* the last update, and exactly one fetch.
C8_Coalescing ==
    burst.n >= 1 =>
       /\ burst.commits = 0 =>
             /\ filterTimer # {}
             /\ burst.fetches = 0
       /\ burst.commits >= 1 =>
             /\ burst.commits = 1
             /\ burst.fetches = 1
             /\ debouncedFilters = RawFilters

\* a burst of two updates has been committed: votes 200 and rating 3.7
C8_Witness ==
    /\ burst = [n |-> 2, commits |-> 1, fetches |-> 1]
    /\ debouncedFilters.minVotes = 200000
    /\ debouncedFilters.minRating = 3700
    /\ Len(inflight) > 0

\* C9: the committed search text changes no sooner than 500 ms after the
\* last update of the raw text, debouncedFilters no sooner than 600 ms
\* after the last update of a numeric input, and an update of one kind
\* leaves the pending timer of the other kind as it is.
C9_QuietIntervals ==
    [][/\ debouncedSearchQuery' # debouncedSearchQuery =>
             sinceSearch >= SEARCH_DEBOUNCE
       /\ SearchDebounceFires => sinceSearch >= SEARCH_DEBOUNCE
       /\ FilterDebounceFires => sinceFilter >= FILTER_DEBOUNCE
       /\ debouncedFilters' # debouncedFilters => FilterDebounceFires
       /\ (\E text \in SearchTexts : SetSearchQuery(text)) =>
             filterTimer' = filterTimer
       /\ (\/ \E text \in VoteTexts : SetMinVotes(text)
           \/ \E text \in RatingTexts : SetMinRating(text)
           \/ \E range \in YearRanges : SetYearRange(range)) =>
             searchTimer' = searchTimer]_vars

\* the search text was committed while a numeric update made before it is
\* still waiting for its own timer
C9_Witness ==
    /\ debouncedSearchQuery = <<"a", " ", "b">>
    /\ minVotes = "200"
    /\ debouncedFilters.minVotes = 100000
    /\ filterTimer # {}
    /\ sinceFilter > 0

\* the committed filter fields
FilterFields ==
    <<includedGenres, excludedGenres, genreMode, selectedPerson, sortBy,
      language, debouncedFilters, debouncedSearchQuery>>

\* a step of a handler that changes a filter field
FilterChange ==
    \/ HandleGenreToggle(1)
    \/ ClearGenres
    \/ ToggleGenreMode
    \/ \E val \in SortKeys : SetSortBy(val)
    \/ \E code \in Languages : SetLanguage(code)
    \/ ResetNumericFilters
    \/ FilterDebounceFires
    \/ SearchDebounceFires

C11_NoFetchOffDiscover ==
    [][/\ (IssuesRequest \/ requested' # requested) =>
             (apiKey' # "" /\ viewMode' = "discover")
       /\ SetViewMode("watchlist") => ~IssuesRequest
       /\ (viewMode = "watchlist" /\
              (\/ SearchDebounceFires
               \/ FilterDebounceFires
               \/ \E text \in SearchTexts : SetSearchQuery(text))) =>
             ~IssuesRequest
       /\ (apiKey = "" /\ (SearchDebounceFires \/ FilterDebounceFires)) =>
             ~IssuesRequest
      ]_vars

\* in watchlist mode both timers started by the switch have fired, and the
\* committed search text was never requested: it was committed in watchlist
\* mode
C11_Witness ==
    /\ viewMode = "watchlist" /\ apiKey # ""
    /\ debouncedSearchQuery # <<>>
    /\ requested.path = "/discover/tv"
    /\ searchTimer = {} /\ filterTimer = {}
    /\ inflight = <<>>

\* the text is empty or Number(text) is NaN
NotANumber(text) == text = "" \/ Number(text).nan

\* C12: the numeric debounce callback commits 0 for a text of minVotes or
\* of minRating that is empty or is not a number, and the number of any
\* other text; it commits the year range as it is, whatever the two texts
\* are; it sets no error (error is cleared or left as it was) and does not
\* drop the credential.
C12_InvalidCommitsZero ==
    [][FilterDebounceFires =>
          /\ NotANumber(minVotes) => debouncedFilters'.minVotes = 0
          /\ NotANumber(minRating) => debouncedFilters'.minRating = 0
          /\ ~NotANumber(minVotes) =>
                debouncedFilters'.minVotes = Number(minVotes).v
          /\ ~NotANumber(minRating) =>
                debouncedFilters'.minRating = Number(minRating).v
          /\ debouncedFilters'.minYear = yearRange[1]
          /\ debouncedFilters'.maxYear = yearRange[2]
          /\ error' = "" \/ error' = error
          /\ apiKey' = apiKey
          /\ apiKey # "" => /\ IssuesRequest
                            /\ error' = ""
      ]_vars

\* "abc" in the votes input and an empty rating input were committed as 0
\* together with a changed year range, and requested with no error
C12_Witness ==
    /\ minVotes = "abc" /\ minRating = ""
    /\ filterTimer = {}
    /\ debouncedFilters = [minVotes |-> 0, minRating |-> 0,
                           minYear |-> 2000, maxYear |-> MAX_YEAR_LIMIT]
    /\ apiKey # "" /\ error = ""
    /\ requested.path = "/discover/tv"
    /\ requested.params["vote_count.gte"] = "0"
    /\ requested.params["first_air_date.gte"] = <<"2000", "-01-01">>

\* a number in milli form is a non-negative integer
IsNonNegativeInteger(x) == x >= 0 /\ x % 1000 = 0

\* a number in milli form lies in [0, 10]
IsRating(x) == 0 <= x /\ x <= 10000

\* C13 as stated: in every reachable state debouncedFilters.minVotes is a
\* non-negative integer and debouncedFilters.minRating lies in [0, 10].
C13_CommittedRanges ==
    /\ IsNonNegativeInteger(debouncedFilters.minVotes)
    /\ IsRating(debouncedFilters.minRating)

\* C13, the part that holds: a commit made while the text of an input is
\* empty, not a number, or a number within the input's min, max and step,
\* leaves the committed value of that input in its range.
C13_InRangeTexts ==
    [][FilterDebounceFires =>
          /\ (NotANumber(minVotes)
                 \/ IsNonNegativeInteger(Number(minVotes).v)) =>
                IsNonNegativeInteger(debouncedFilters'.minVotes)
          /\ (NotANumber(minRating) \/ IsRating(Number(minRating).v)) =>
                IsRating(debouncedFilters'.minRating)
      ]_vars

\* the default votes text and a rating text that is not a number were
\* committed: both committed values are in range
C13_InRangeWitness ==
    /\ minVotes = "100" /\ minRating = "abc"
    /\ filterTimer = {} /\ sinceFilter >= FILTER_DEBOUNCE
    /\ debouncedFilters.minVotes = 100000
    /\ debouncedFilters.minRating = 0
    /\ Len(inflight) > 0

(***************************************************************************)
(* Properties of useWatchlist (SpecWatchlist).                             *)
(***************************************************************************)
\* no two entries of the list have the same id
UniqueIds(list) ==
    \A i, j \in 1 .. Len(list) : list[i].id = list[j].id => i = j

\* the persisted watchlist, as a reader parses it
Persisted == IF stored # <<>> THEN JsonParse(stored[1]) ELSE <<>>

C15_LeavesOnlyByRemove == kept \subseteq Ids(Persisted)

\* C15, the part that holds: the storage changes only in addToWatchlist
\* and removeFromWatchlist; a write replaces the persisted list by the list
\* of the writing instance, with the new item in front or the removed id
\* left out; so a write of a tab that has no storage event waiting takes
\* nothing out of the persisted watchlist but the id it removes.
C15_WriterListWins ==
    [][/\ stored' # stored =>
             \E tab \in Tabs :
                \/ \E show \in {Show1, Show2} :
                      AddToWatchlist(<<tab, "ShowCard">>, show,
                                     BingeHours(show))
                \/ \E id \in {1, 2} :
                      RemoveFromWatchlist(<<tab, "ShowCard">>, id)
       /\ \A tab \in Tabs, show \in {Show1, Show2} :
             (/\ AddToWatchlist(<<tab, "ShowCard">>, show, BingeHours(show))
              /\ ~HasId(watchlist[<<tab, "ShowCard">>], show.id)) =>
                /\ Ids(Persisted') =
                      Ids(watchlist[<<tab, "ShowCard">>]) \cup {show.id}
                /\ tab \notin storageEvents =>
                      Ids(Persisted') = Ids(Persisted) \cup {show.id}
       /\ \A tab \in Tabs, id \in {1, 2} :
             RemoveFromWatchlist(<<tab, "ShowCard">>, id) =>
                /\ Ids(Persisted') =
                      Ids(watchlist[<<tab, "ShowCard">>]) \ {id}
                /\ tab \notin storageEvents =>
                      Ids(Persisted') = Ids(Persisted) \ {id}]_vars

\* the two tabs added one show each, the second after the storage event
\* of the first was delivered: both are persisted
C15_Witness ==
    /\ kept = {1, 2}
    /\ Len(Persisted) = 2
    /\ Persisted[1].id = 2 /\ Persisted[1].addedAt = MaxClock
    /\ Persisted[2].id = 1 /\ Persisted[2].addedAt = 1
    /\ watchlist[<<"A", "ShowCard">>] = Persisted
    /\ "A" \in storageEvents

\* every mounted instance of the tab holds the persisted list
TabInSync(tab) ==
    \A h \in hookMounted : h[1] = tab => watchlist[h] = Persisted

\* C16: an addToWatchlist or removeFromWatchlist that changes the list of
\* its instance or the storage dispatches 'watchlist-updated' after its
\* write, and when its listeners have run every mounted instance of that
\* tab holds the persisted list; when a storage event is delivered to a
\* tab, every mounted instance of that tab holds the persisted list; and
\* at any time the instances of a tab with no storage event waiting hold
\* the persisted list.
C16_Notified ==
    /\ [](\A tab \in Tabs : tab \notin storageEvents => TabInSync(tab))
    /\ [][/\ \A tab \in Tabs :
               (/\ \/ \E show \in {Show1, Show2} :
                        AddToWatchlist(<<tab, "ShowCard">>, show,
                                       BingeHours(show))
                   \/ \E id \in {1, 2} :
                        RemoveFromWatchlist(<<tab, "ShowCard">>, id)
                /\ (watchlist' # watchlist \/ stored' # stored)) =>
                  /\ notified'
                  /\ stored' # <<>>
                  /\ TabInSync(tab)'
                  /\ stored' # stored =>
                        \A other \in Tabs \ {tab} :
                           (\E h \in hookMounted : h[1] = other) =>
                              other \in storageEvents'
          /\ \A tab \in Tabs :
                DeliverStorage(tab) => TabInSync(tab)' /\ stored' = stored
         ]_vars

\* tab A's card removed the show of an earlier session after adding the
\* second show; App of tab A and, after delivery, the card of tab B hold
\* the persisted list
C16_Witness ==
    /\ hookMounted = Hooks
    /\ notified
    /\ storageEvents = {}
    /\ kept = {2}
    /\ Len(Persisted) = 1 /\ Persisted[1].id = 2
    /\ \A h \in Hooks : watchlist[h] = Persisted

(***************************************************************************)
(* Properties of sortedWatchlist (SpecLibrary).                            *)
(***************************************************************************)
\* the list App displays in watchlist mode, in an engine
SortedWatchlist(engine) ==
    SortedWatchlistRun(watchlist[<<"A", "App">>], watchlistSortBy,
                       debouncedSearchQuery, engine).list

\* the value of an item on a sort field: a date text by its place in
\* lexical order (no date first), a number as it is (none as 0)
FieldValue(item, field) ==
    IF field = "first_air_date" THEN DateOf(item.first_air_date).rank
    ELSE item[field]

\* every two items of the list with different values are in the order of
\* the direction
OrderedByValue(list, field, direction) ==
    \A i, j \in 1 .. Len(list) :
       FieldValue(list[i], field) < FieldValue(list[j], field) =>
          IF direction = "asc" THEN i < j ELSE j < i

\* the same for the values the comparator computes
OrderedBySortValue(list, field, direction) ==
    \A i, j \in 1 .. Len(list) :
       SortValue(list[i], field) < SortValue(list[j], field) =>
          IF direction = "asc" THEN i < j ELSE j < i

\* C17 as stated: in every engine, for the sort key selected, every two
\* displayed items with different values on the field stand smaller first
\* when the direction is asc and larger first when it is desc.
C17_DistinctValuesOrdered ==
    \A engine \in Engines :
       OrderedByValue(SortedWatchlist(engine), Split(watchlistSortBy)[1],
                      Split(watchlistSortBy)[2])

\* C17, the part that holds: in every engine, every two displayed items
\* for which the comparator computes different values (the number of the
\* field, none as 0; for first_air_date the instant of the date, with no
\* date and the epoch both as 0) stand in the order of the direction, also
\* when other items tie; on the five numeric fields these are the values
\* of the items.
C17_DistinctKeysOrdered ==
    \A engine \in Engines :
       /\ OrderedBySortValue(SortedWatchlist(engine),
                             Split(watchlistSortBy)[1],
                             Split(watchlistSortBy)[2])
       /\ Split(watchlistSortBy)[1] # "first_air_date" =>
             OrderedByValue(SortedWatchlist(engine),
                            Split(watchlistSortBy)[1],
                            Split(watchlistSortBy)[2])

\* three items, two of them with the same vote count, were sorted by vote
\* count ascending: the order displayed is not the order of the watchlist
C17_Witness ==
    /\ watchlistSortBy = "vote_count.asc"
    /\ debouncedSearchQuery = <<>>
    /\ Len(watchlist[<<"A", "App">>]) = MaxItems
    /\ watchlist[<<"A", "App">>][1].vote_count = 200
    /\ watchlist[<<"A", "App">>][2].vote_count = 100
    /\ watchlist[<<"A", "App">>][3].vote_count = 100
    /\ \A engine \in Engines :
          /\ SortedWatchlist(engine) # watchlist[<<"A", "App">>]
          /\ SortedWatchlist(engine)[MaxItems].vote_count = 200

\* the title contains the text as a substring when case is ignored
TitleContains(title, text) ==
    \E k \in 0 .. Len(title) - Len(text) :
       \A n \in 1 .. Len(text) :
          ToLowerCase(<<title[k + n]>>) = ToLowerCase(<<text[n]>>)

\* how many times an item stands in a list
Occurrences(list, item) == Cardinality({i \in 1 .. Len(list) : list[i] = item})

\* C18: in every engine the displayed watchlist holds each watchlist item
\* whose title contains the committed search text, case ignored, exactly
\* once and nothing else; with empty search text it is a permutation of the
\* watchlist; and computing it (here on every change of the sort key)
\* leaves the watchlist of the instance, its order and the storage as they
\* were.
C18_FilteredOnce ==
    /\ [](\A engine \in Engines :
            LET source == watchlist[<<"A", "App">>]
                shown  == SortedWatchlist(engine)
            IN  /\ \A i \in 1 .. Len(source) :
                      Occurrences(shown, source[i]) =
                        IF TitleContains(source[i].name, debouncedSearchQuery)
                        THEN 1 ELSE 0
                /\ \A j \in 1 .. Len(shown) :
                      \E i \in 1 .. Len(source) : shown[j] = source[i]
                /\ debouncedSearchQuery = <<>> => Len(shown) = Len(source)
                /\ SortedWatchlistRun(source, watchlistSortBy,
                                      debouncedSearchQuery,
                                      engine).watchlist = source)
    /\ [][watchlistSortBy' # watchlistSortBy =>
            /\ watchlist' = watchlist
            /\ stored' = stored]_vars

\* with the search text "B" committed, a watchlist of three items of which
\* one has no b in its title, one a capital B and one a small b is
\* displayed by popularity as two items in another order than stored
C18_Witness ==
    /\ debouncedSearchQuery = <<"B">>
    /\ watchlistSortBy = "popularity.asc"
    /\ Len(watchlist[<<"A", "App">>]) = MaxItems
    /\ \E i \in 1 .. MaxItems : watchlist[<<"A", "App">>][i].name = <<"c">>
    /\ \E i \in 1 .. MaxItems :
          watchlist[<<"A", "App">>][i].name = <<"B", " ", "A">>
    /\ \E i \in 1 .. MaxItems :
          watchlist[<<"A", "App">>][i].name = <<"b", "a">>
    /\ \A engine \in Engines :
          /\ Len(SortedWatchlist(engine)) = 2
          /\ SortedWatchlist(engine) #
                SelectSeq(watchlist[<<"A", "App">>],
                          LAMBDA item : item.name # <<"c">>)

(***************************************************************************)
(* Properties of the first-air-date bounds (SpecCommit).                   *)
(***************************************************************************)
\* the latest request is a discovery query
RequestedDiscover == requested.path = "/discover/tv"

\* C19 as stated: a discovery query carries first_air_date.gte only for a
\* committed lower year other than the default 1900, and
\* first_air_date.lte only for a committed upper year other than the
\* default currentYear + 5, and then as '<minYear>-01-01' and
\* '<maxYear>-12-31'.
C19_DefaultRangeUnbounded ==
    RequestedDiscover =>
       /\ IF debouncedFilters.minYear = MIN_YEAR_LIMIT
          THEN "first_air_date.gte" \notin DOMAIN requested.params
          ELSE /\ "first_air_date.gte" \in DOMAIN requested.params
               /\ requested.params["first_air_date.gte"] =
                     <<ToString(debouncedFilters.minYear), "-01-01">>
       /\ IF debouncedFilters.maxYear = MAX_YEAR_LIMIT
          THEN "first_air_date.lte" \notin DOMAIN requested.params
          ELSE /\ "first_air_date.lte" \in DOMAIN requested.params
               /\ requested.params["first_air_date.lte"] =
                     <<ToString(debouncedFilters.maxYear), "-12-31">>

\* C19, the part that holds: every discovery query of App carries both
\* bounds, first_air_date.gte = '<minYear>-01-01' and
\* first_air_date.lte = '<maxYear>-12-31' of the committed year range, the
\* default range included.
C19_BoundsOfCommittedRange ==
    RequestedDiscover =>
       /\ "first_air_date.gte" \in DOMAIN requested.params
       /\ requested.params["first_air_date.gte"] =
             <<ToString(debouncedFilters.minYear), "-01-01">>
       /\ "first_air_date.lte" \in DOMAIN requested.params
       /\ requested.params["first_air_date.lte"] =
             <<ToString(debouncedFilters.maxYear), "-12-31">>

\* the year range [2000, currentYear + 5] was committed and requested
C19_Witness ==
    /\ RequestedDiscover
    /\ yearRange = <<2000, MAX_YEAR_LIMIT>>
    /\ filterTimer = {}
    /\ debouncedFilters.minYear = 2000
    /\ requested.params["first_air_date.gte"] = <<"2000", "-01-01">>
    /\ requested.params["first_air_date.lte"] =
          <<ToString(MAX_YEAR_LIMIT), "-12-31">>

(***************************************************************************)
(* Properties of clearGenres (SpecGenre).                                  *)
(***************************************************************************)
\* the latest request names no genre and no person
NoGenreOrPersonRequested ==
    /\ requested'.path = "/discover/tv"
    /\ DOMAIN requested'.params \cap
          {"with_genres", "without_genres", "with_people"} = {}

\* C20: a step of clearGenres leaves includedGenres and excludedGenres
\* empty and the person filter cleared, issues one request, which names no
\* genre and no person, and leaves genreMode, the numeric inputs, the year
\* range, the search text, their committed values, the language and the
\* sort key as they were; and no step at all that empties a list of two
\* genres issues a request that still names a genre or a person.
C20_ClearGenresAtOnce ==
    [][/\ ClearGenres =>
             /\ includedGenres' = <<>>
             /\ excludedGenres' = <<>>
             /\ selectedPerson' = <<>>
             /\ Len(inflight') = Len(inflight) + 1
             /\ NoGenreOrPersonRequested
             /\ UNCHANGED <<genreMode, rawVars, commitVars, language, sortBy>>
       /\ (/\ IssuesRequest
           /\ \/ Len(includedGenres) = MaxGenre /\ includedGenres' = <<>>
              \/ Len(excludedGenres) = MaxGenre /\ excludedGenres' = <<>>) =>
             NoGenreOrPersonRequested
      ]_vars

\* in ALL mode, with one genre excluded and none included, the lists were
\* cleared: both are empty, the mode is still ALL, and the request pending
\* names no genre
C20_Witness ==
    /\ includedGenres = <<>> /\ excludedGenres = <<>>
    /\ selectedPerson = <<>>
    /\ genreMode = "AND"
    /\ page = 1
    /\ Len(inflight) > 0
    /\ requested.path = "/discover/tv"
    /\ DOMAIN requested.params \cap
          {"with_genres", "without_genres", "with_people"} = {}

(***************************************************************************)
(* Properties of overlapping requests and of failed requests (SpecRace).   *)
(***************************************************************************)
\* what loadData displays of the response to a pending call
DisplayedFor(pending) ==
    IF pending.search THEN UpstreamResults(pending)
    ELSE FilterResults(UpstreamResults(pending), pending.minVotes,
                       pending.minRating)

\* the i-th pending call is answered with 200
Answered(i) ==
    FetchSucceeds(i, UpstreamResults(inflight[i]),
                  UpstreamTotalPages(inflight[i]))

\* C21: the response of every pending call is stored when it arrives,
\* whether or not a later call was issued or has been answered since: the
\* results and the total page count displayed become those of the call
\* answered.  (The state the claim names, all requests completed and the
\* display not that of the current filters, is C21_Witness.)
C21_NoGenerationGuard ==
    [][\A i \in 1 .. MaxInflight :
          Answered(i) =>
             /\ shows' = DisplayedFor(inflight[i])
             /\ totalPages' = UpstreamTotalPages(inflight[i])
      ]_vars

\* request A was issued for 100 votes and request B for 200 votes; B was
\* answered, then A: nothing is pending or loading, no error is shown, the
\* committed threshold and the latest request are those of B, and the
\* display is that of A, with a record of 150 votes and two pages
C21_Witness ==
    /\ inflight = <<>> /\ ~loading /\ error = ""
    /\ apiKey # "" /\ viewMode = "discover"
    /\ minVotes = "200" /\ filterTimer = {}
    /\ debouncedFilters.minVotes = 200000
    /\ requested.params["vote_count.gte"] = "198"
    /\ shows = <<Show5, Show6>>
    /\ totalPages = 2
    /\ shows # DisplayedFor(LoadDataCall(debouncedSearchQuery,
                                         debouncedFilters))

\* the two messages of the catch of loadData
InvalidKeyMessage == "Invalid API Key provided. Please try again."
FetchFailedMessage == "Failed to fetch shows. Please try again later."

\* C22: a step in which a pending discovery or search call is answered
\* with 401 ends with the stored credential removed, no credential in
\* memory (so the credential screen is rendered), the invalid-credential
\* message as the error and loading false, and issues no request; and as
\* long as there is no credential in memory, the only step that issues a
\* request is one that stores and sets a credential.
C22_UnauthorizedClearsCredential ==
    [][/\ \A i \in 1 .. MaxInflight :
             FetchUnauthorized(i) =>
                /\ localKey' = ""
                /\ apiKey' = ""
                /\ error' = InvalidKeyMessage
                /\ ~loading'
                /\ ~IssuesRequest
                /\ requested' = requested
       /\ (mounted /\ apiKey = "" /\ (IssuesRequest \/ requested' # requested)) =>
             /\ apiKey' # ""
             /\ localKey' = apiKey'
      ]_vars

\* a search request was answered with 401 while the timers went on: no
\* credential is stored or in memory, the message is shown, nothing is
\* pending and the latest request is still that search
C22_Witness ==
    /\ mounted /\ apiKey = "" /\ localKey = ""
    /\ error = InvalidKeyMessage
    /\ ~loading /\ inflight = <<>>
    /\ searchTimer = {} /\ filterTimer = {}
    /\ requested.path = "/search/tv"

\* a step that is the Retry button: a request and nothing else
RetryStep ==
    /\ IssuesRequest
    /\ UNCHANGED <<apiKey, viewMode, page, filterVars, rawVars, commitVars,
                   searchTimer, filterTimer>>

\* a step that changes the credential, the view, the page or the value of
\* a filter, raw or committed
UserChange ==
    \/ apiKey' # apiKey \/ viewMode' # viewMode \/ page' # page
    \/ filterVars' # filterVars \/ rawVars' # rawVars
    \/ commitVars' # commitVars

\* C23 as stated: a step in which a pending call fails otherwise than with
\* 401 shows the generic error, keeps the credential, ends with loading
\* false and issues no request; and while the generic error is the error,
\* a request is issued only by the Retry button or by a step that changes
\* the credential, the view, the page or the value of a filter.
C23_OnlyRetryOrChange ==
    [][/\ \A i \in 1 .. MaxInflight :
             FetchFails(i) =>
                /\ error' = FetchFailedMessage
                /\ apiKey' = apiKey /\ localKey' = localKey
                /\ ~loading'
                /\ ~IssuesRequest
       /\ (error = FetchFailedMessage /\ IssuesRequest) =>
             RetryStep \/ UserChange
      ]_vars

\* C23, the part that holds: a step in which a pending call fails
\* otherwise than with 401 shows the generic error, keeps the credential
\* stored and in memory, ends with loading false, issues no request and
\* sets no timer; and while the generic error is the error, a request is
\* issued only by the Retry button, by a step that changes the value of a
\* filter, the page, the view or the credential, or by the callback of a
\* numeric debounce timer that was already pending.
C23_FailureIssuesNothing ==
    [][/\ \A i \in 1 .. MaxInflight :
             FetchFails(i) =>
                /\ error' = FetchFailedMessage
                /\ apiKey' = apiKey /\ localKey' = localKey
                /\ ~loading'
                /\ ~IssuesRequest
                /\ UNCHANGED <<searchTimer, filterTimer, requested>>
       /\ (error = FetchFailedMessage /\ IssuesRequest) =>
             RetryStep \/ UserChange \/ 0 \in filterTimer
      ]_vars

\* the only request failed, the timers set at mount have run out, and the
\* Retry button is shown: generic error, credential kept, nothing pending
C23_Witness ==
    /\ error = FetchFailedMessage
    /\ apiKey = "k1" /\ localKey = "k1"
    /\ ~loading /\ inflight = <<>>
    /\ searchTimer = {} /\ filterTimer = {}
    /\ shows = <<>>
    /\ ENABLED Retry

(***************************************************************************)
(* Properties of items without a parseable date (SpecLibrary).             *)
(***************************************************************************)
\* new Date(item.first_air_date) is an invalid date
Unparseable(item) == DateOf(item.first_air_date).nan

\* the list is sorted by first air date in the direction
SortedByDate(direction) ==
    /\ Split(watchlistSortBy)[1] = "first_air_date"
    /\ Split(watchlistSortBy)[2] = direction

\* C24 as stated: when the watchlist is sorted by first_air_date, in every
\* engine an item whose date cannot be parsed stands before every item
\* with a parseable date in asc direction and after every such item in
\* desc direction.
C24_UnparseableEarliest ==
    \A engine \in Engines :
       LET shown == SortedWatchlist(engine) IN
       \A i, j \in 1 .. Len(shown) :
          (Unparseable(shown[i]) /\ ~Unparseable(shown[j])) =>
             /\ SortedByDate("asc") => i < j
             /\ SortedByDate("desc") => j < i

\* C24, the part that holds: an item whose date cannot be parsed is
\* ordered as if its date were 1970-01-01: in asc direction it stands
\* before every item with a later date and after every item with an
\* earlier date, and the other way round in desc direction.
C24_UnparseableAsEpoch ==
    \A engine \in Engines :
       LET shown == SortedWatchlist(engine) IN
       \A i, j \in 1 .. Len(shown) :
          (Unparseable(shown[i]) /\ ~Unparseable(shown[j])) =>
             LET days == DateOf(shown[j].first_air_date).days IN
             /\ (SortedByDate("asc") /\ days > 0) => i < j
             /\ (SortedByDate("asc") /\ days < 0) => j < i
             /\ (SortedByDate("desc") /\ days > 0) => j < i
             /\ (SortedByDate("desc") /\ days < 0) => i < j

\* an item without a date, one of 1965 and one of 2020 were sorted by
\* first air date ascending: 1965, no date, 2020
C24_Witness ==
    /\ watchlistSortBy = "first_air_date.asc"
    /\ debouncedSearchQuery = <<>>
    /\ Len(watchlist[<<"A", "App">>]) = MaxItems
    /\ \A engine \in Engines :
          /\ SortedWatchlist(engine)[1].first_air_date = "1965-09-15"
          /\ SortedWatchlist(engine)[2].first_air_date = ""
          /\ SortedWatchlist(engine)[3].first_air_date = "2020-05-01"
          /\ SortedWatchlist(engine) # watchlist[<<"A", "App">>]

(***************************************************************************)
(* Properties of loadWatchlist on a storage it did not write (SpecStore).  *)
(***************************************************************************)
\* the stored value is absent, not JSON, or not a list of records
Incompatible(st) ==
    st = <<>> \/ st[1] = SyntaxErrorText \/ st[1] = ObjectText

\* instance h has read the storage as it is now
HasRead(h) == h \in hookMounted /\ h[1] \notin storageEvents

\* C25 as stated: a reader that has loaded or re-read a storage whose
\* value is absent or structurally incompatible holds the empty list, and
\* its component renders without an error, whatever list it held before.
C25_IncompatibleReadsEmpty ==
    \A h \in Hooks :
       (HasRead(h) /\ Incompatible(stored)) =>
          watchlist[h] = <<>> /\ ~RenderThrows(h)

\* C25, the part that holds: with a value that is absent or not JSON, a
\* reader that mounts holds the empty list and every mounted reader keeps
\* the list it held (a re-read sets nothing), and no reader that holds a
\* list throws; a reader that has read a text of a list holds that list.
C25_AbsentOrSyntaxErrorKeeps ==
    /\ [][\A h \in Hooks :
            (h \in hookMounted' /\ (stored' = <<>> \/ stored' = <<SyntaxErrorText>>)) =>
               watchlist'[h] = IF h \in hookMounted THEN watchlist[h] ELSE <<>>
        ]_vars
    /\ [](\A h \in Hooks :
            (HasRead(h) /\ ~Incompatible(stored)) =>
               watchlist[h] = JsonParse(stored[1]) /\ ~RenderThrows(h))

\* the value was removed from outside while a card of tab A held the list
\* of one item; its storage event was delivered, and the card still holds
\* the item, while the card of tab B, mounted afterwards, holds nothing
C25_Witness ==
    /\ stored = <<>>
    /\ <<"A", "ShowCard">> \in hookMounted /\ "A" \notin storageEvents
    /\ <<"B", "ShowCard">> \in hookMounted /\ "B" \notin storageEvents
    /\ watchlist[<<"A", "ShowCard">>] = <<WatchlistItem(Show1, 0, 12)>>
    /\ watchlist[<<"B", "ShowCard">>] = <<>>

(***************************************************************************)
(* Properties of loading (SpecRace).                                       *)
(***************************************************************************)
\* C26 as stated: loading is true whenever a discovery or search request
\* is in flight.
C26_LoadingWhilePending == Len(inflight) > 0 => loading

\* C26, the part that holds: loading is true only while a request is in
\* flight; every step that issues a request ends with loading true, and
\* every step in which a pending request completes, with 200, 401 or
\* another failure, ends with loading false, whether or not other
\* requests are still pending.
C26_LoadingUntilFirstCompletion ==
    /\ [](loading => Len(inflight) > 0)
    /\ [][/\ IssuesRequest => loading'
          /\ Len(inflight') < Len(inflight) => ~loading'
        ]_vars

\* the request for 100 votes was answered while the request for 200 votes
\* is still pending: its results are displayed, with the pagination bar,
\* and loading is false
C26_Witness ==
    /\ Len(inflight) = 1 /\ inflight[1].minVotes = 200000
    /\ ~loading /\ error = ""
    /\ debouncedFilters.minVotes = 200000
    /\ shows = <<Show5, Show6>>
    /\ PaginationShown

(***************************************************************************)
(* Properties of the pagination bar (SpecPaging).                          *)
(***************************************************************************)
\* the results of a page are displayed: discover mode, nothing pending or
\* loading, no error, and the upstream reported pages after this one
PageDisplayed ==
    /\ mounted /\ apiKey # "" /\ viewMode = "discover"
    /\ inflight = <<>> /\ ~loading /\ error = ""
    /\ page < totalPages

\* C27 as stated: whenever the results of page p are displayed and
\* p < total_pages, the Next Page button can be used, whatever the
\* reconciler kept of the page.
C27_NextAlwaysAvailable == PageDisplayed => ENABLED NextPage

\* C27, the part that holds: whenever the results of page p are displayed,
\* p < total_pages and the reconciler kept at least one record of the
\* page, the Next Page button can be used; and using it requests page
\* p + 1 and nothing else changes of the filters.
C27_NextAvailableWithRecords ==
    /\ []((PageDisplayed /\ Len(shows) > 0) => ENABLED NextPage)
    /\ [][NextPage =>
            /\ page' = page + 1
            /\ IssuesRequest
            /\ requested'.params["page"] = ToString(page + 1)
            /\ UNCHANGED <<filterVars, commitVars>>
        ]_vars

\* the last page was reached with Next Page, and of its two records the
\* reconciler kept one
C27_Witness ==
    /\ mounted /\ apiKey # "" /\ viewMode = "discover"
    /\ page = MaxPages /\ totalPages = MaxPages
    /\ inflight = <<>> /\ ~loading /\ error = ""
    /\ requested.params["page"] = ToString(MaxPages)
    /\ shows = <<Show5>>

(***************************************************************************)
(* Properties of debounce timers that fire with nothing to commit          *)
(* (SpecSwitch).                                                           *)
(***************************************************************************)
\* the values loadData reads change in the step
ValueChange ==
    \/ apiKey' # apiKey \/ viewMode' # viewMode \/ page' # page
    \/ filterVars' # filterVars \/ commitVars' # commitVars

\* the step is the callback of the numeric debounce timer (not a handler
\* whose render clears the timer)
NumericTimerFires ==
    /\ 0 \in filterTimer /\ 0 \notin filterTimer'
    /\ UNCHANGED <<viewMode, rawVars>>

\* the step is the callback of the search debounce timer
SearchTimerFires ==
    /\ 0 \in searchTimer /\ 0 \notin searchTimer'
    /\ UNCHANGED <<viewMode, rawVars>>

\* the raw inputs are what is committed
NothingToCommit ==
    /\ searchQuery = debouncedSearchQuery
    /\ debouncedFilters = [minVotes  |-> CommitNumber(minVotes),
                           minRating |-> CommitNumber(minRating),
                           minYear   |-> yearRange[1],
                           maxYear   |-> yearRange[2]]

\* C28 as stated: a request is issued only by a step that changes the
\* credential, the view mode, the page or a committed filter value, and a
\* debounce timer that fires with raw values equal to the committed ones
\* issues no request and leaves page as it is.
C28_RequestOnlyOnChange ==
    [][/\ IssuesRequest => ValueChange
       /\ ((NumericTimerFires \/ SearchTimerFires) /\ NothingToCommit) =>
             ~IssuesRequest /\ page' = page
      ]_vars

\* C28, the part that holds: a request is issued only by a step that
\* changes the credential, the view mode, the page or a committed value,
\* or by the callback of the numeric debounce timer; the mount with a
\* stored credential and a switch to discover mode each issue one request
\* in their own step; the callback of the search timer with nothing to
\* commit issues a request only when it resets page to 1; and the callback
\* of the numeric timer in discover mode with a credential always issues
\* a request for page 1, also with nothing to commit.
C28_TimerAlwaysRequests ==
    [][/\ IssuesRequest => ValueChange \/ NumericTimerFires
       /\ IssuesRequest => Len(inflight') = Len(inflight) + 1
       /\ (~mounted /\ mounted' /\ apiKey' # "") => IssuesRequest
       /\ (viewMode = "watchlist" /\ viewMode' = "discover") => IssuesRequest
       /\ (SearchTimerFires /\ NothingToCommit /\ IssuesRequest) =>
             page # 1 /\ page' = 1
       /\ (NumericTimerFires /\ apiKey # "" /\ viewMode = "discover") =>
             /\ IssuesRequest
             /\ page' = 1
             /\ requested'.params["page"] = "1"
      ]_vars

\* the view was switched to the watchlist on page 2 and back; the request
\* of the switch, for page 2, was answered; then the timers set by the
\* switch fired with nothing to commit: page is 1 and a second request,
\* for page 1, is pending
C28_Witness ==
    /\ viewMode = "discover" /\ apiKey # ""
    /\ NothingToCommit
    /\ searchTimer = {} /\ filterTimer = {}
    /\ page = 1 /\ totalPages = MaxPages
    /\ Len(inflight) = 1 /\ loading
    /\ requested.params["page"] = "1"
    /\ shows = <<Show1>>


(***************************************************************************)
(* The details of a card.                                                  *)
(***************************************************************************)
\* the detail fields of a card
DetailsOf(c) ==
    <<c.status, c.imdbId, c.cast, c.trailerUrl, c.recommendations,
      c.bingeHours>>

\* the status, cast, trailer, recommendations and hours of card c are null
\* or empty, or those of show id
DetailsFrom(c, id) ==
    /\ c.status \in {0, id}
    /\ c.cast \in {0, id}
    /\ c.trailerUrl \in {0, id}
    /\ c.recommendations \in {<<>>, Recommended(id)}
    /\ c.bingeHours \in {0, DetailHours(id)}

\* the step stores, with loadingDetails false, some details of show id
AppliedFor(id) ==
    \E d \in DetailShapes :
       card' = [ApplyDetails(card, id, d) EXCEPT !.loadingDetails = FALSE]

\* the runs of the details effect whose request is pending after their
\* cleanup
StaleCalls ==
    {i \in 1 .. Len(detailCalls) :
        ~detailCalls[i].isMounted /\ detailCalls[i].pc = "fetch"}

\* C29 (as stated): the status, cast, trailer, recommendations and binge
\* hours a card shows once loadingDetails is false come only from a
\* response for the show it currently displays.
C29_DetailsOfDisplayedShow ==
    (card.mounted /\ ~card.loadingDetails) =>
       DetailsFrom(card, card.currentShow.id)

\* C29 (what holds): a run of the details effect keeps isMounted only
\* while the card is mounted and displays the show the run asked for, and
\* whenever the detail fields of a mounted card change, the step stores
\* details of the show the card displays at that moment; a response for
\* another show, or one that arrives after the unmount, stores nothing.
C29_ResponseOnlyForDisplayedShow ==
    /\ [](\A i \in 1 .. Len(detailCalls) :
            detailCalls[i].isMounted =>
               card.mounted /\ detailCalls[i].id = card.currentShow.id)
    /\ [][(card.mounted /\ card'.mounted
             /\ DetailsOf(card') # DetailsOf(card)) =>
              (card'.currentShow = card.currentShow
                 /\ AppliedFor(card.currentShow.id))]_vars
    /\ [][(~card.mounted /\ card' # card) =>
              \E show \in CardShows : card' = NewCard(show)]_vars

\* C29 witness: after a drill-down the card shows the complete details of
\* the show it displays while the request of the show it displayed before
\* is still pending.
C29_Witness ==
    /\ card.mounted /\ ~card.loadingDetails
    /\ card.currentShow # card.show
    /\ DetailsOf(card) =
          <<card.currentShow.id, card.currentShow.id, card.currentShow.id,
            card.currentShow.id, Recommended(card.currentShow.id),
            DetailHours(card.currentShow.id)>>
    /\ \E i \in StaleCalls : detailCalls[i].id = card.show.id


(***************************************************************************)
(* The hours a card passes to addToWatchlist.                              *)
(***************************************************************************)
\* the values of a card's bingeHours
HourValues == {0} \cup {DetailHours(show.id) : show \in CardShows}

\* the step is a call addToWatchlist(show, hours) of the card that adds
AddsFromCard(show, hours) ==
    /\ ~HasId(watchlist[CardHook], show.id)
    /\ AddToWatchlist(CardHook, show, hours)

\* the bingeHours of card c are null or were computed from the show it
\* displays
HoursOfDisplayed(c) == c.bingeHours \in {0, DetailHours(c.currentShow.id)}

\* C30 (as stated): addToWatchlist is never called for a show with a
\* bingeHours value that was computed from a different show.
C30_HoursOfAddedShow ==
    [][\A show \in CardShows, hours \in HourValues :
          AddsFromCard(show, hours) =>
             hours \in {0, DetailHours(show.id)}]_vars

\* C30 (what holds): addToWatchlist is called with the show the card
\* displays and the card's bingeHours; these are null or the hours of the
\* displayed show at the mount and after every stored response, and stay
\* so over every step that keeps the id displayed: the hours of another
\* show are passed only between a change of the displayed show and the
\* next response that is stored.
C30_HoursOfLastStoredResponse ==
    /\ [][\A show \in CardShows, hours \in HourValues :
             AddsFromCard(show, hours) =>
                show = card.currentShow /\ hours = card.bingeHours]_vars
    /\ [][(card'.mounted
             /\ (~card.mounted
                   \/ DetailsOf(card') # DetailsOf(card)
                   \/ (HoursOfDisplayed(card)
                         /\ card'.currentShow.id = card.currentShow.id))) =>
              HoursOfDisplayed(card')]_vars

\* C30 witness: after a drill-down and the response for the show drilled
\* to, the card has added that show with its own hours.
C30_Witness ==
    /\ card.mounted /\ card.currentShow # card.show
    /\ \E i \in 1 .. Len(watchlist[CardHook]) :
          /\ watchlist[CardHook][i].id = card.currentShow.id
          /\ watchlist[CardHook][i].bingeHours =
                DetailHours(card.currentShow.id)

====
